---- MODULE Spec2Model ----
(***************************************************************************)
(* Market Signal Consensus Engine (src/server/index.js).                   *)
(*                                                                         *)
(* The module holds                                                        *)
(*   - exact arithmetic: the JavaScript numbers of the indicator code are  *)
(*     modelled by their exact rational values (arbitrary-size naturals    *)
(*     as digit sequences, fractions of them);                             *)
(*   - rounded arithmetic: IEEE 754 binary64 values with round to nearest, *)
(*     for serverEma computed as JavaScript computes it (EmaSpec);         *)
(*   - the indicator functions and serverMakePrediction as operators;      *)
(*   - ScoreSpec: the scorer and the commit-offset rule applied to         *)
(*     bounded sets of price series;                                       *)
(*   - Spec: the hourly prediction lock, its ticks, requests and reset;    *)
(*   - StochSpec: serverStochRsi applied to series around its 28-point     *)
(*     threshold;                                                          *)
(*   - CacheSpec and ScanSpec: the candle, whale-trade and trader-ranking  *)
(*     caches;                                                             *)
(*   - AuthSpec: the access codes and sessions (src/server/database.js,    *)
(*     src/bot/index.js).                                                  *)
(***************************************************************************)
EXTENDS Integers, Sequences, FiniteSets, TLC

(***************************************************************************)
(* Arbitrary-size naturals: little-endian sequences of digits in base      *)
(* BASE, without leading zero digits; zero is the empty sequence.          *)
(***************************************************************************)
BASE == 10 * 100

\* sum of s[lo..hi], by halves (the evaluation stays shallow)
RECURSIVE SumR(_, _, _)
SumR(s, lo, hi) ==
  IF lo > hi THEN 0
  ELSE IF lo = hi THEN s[lo]
  ELSE SumR(s, lo, (lo + hi) \div 2) + SumR(s, (lo + hi) \div 2 + 1, hi)

SumSeq(s) == SumR(s, 1, Len(s))

\* carry propagation over t[lo..hi] with carry c coming in: the digits and
\* the carry going out (digits of t may exceed BASE or be negative)
RECURSIVE NormR(_, _, _, _)
NormHi(t, mid, hi, L) ==
  LET U == NormR(t, mid + 1, hi, L.c) IN [d |-> L.d \o U.d, c |-> U.c]

NormR(t, lo, hi, c) ==
  IF lo > hi THEN [d |-> <<>>, c |-> c]
  ELSE IF lo = hi THEN [d |-> <<(t[lo] + c) % BASE>>, c |-> (t[lo] + c) \div BASE]
  ELSE NormHi(t, (lo + hi) \div 2, hi, NormR(t, lo, (lo + hi) \div 2, c))

BigFromInt(n) ==
  IF n = 0 THEN <<>>
  ELSE IF n < BASE THEN <<n>>
  ELSE IF n < BASE * BASE THEN <<n % BASE, n \div BASE>>
  ELSE IF n < BASE * BASE * BASE
    THEN <<n % BASE, (n \div BASE) % BASE, n \div (BASE * BASE)>>
  ELSE <<n % BASE, (n \div BASE) % BASE, (n \div (BASE * BASE)) % BASE,
         n \div (BASE * BASE * BASE)>>

\* without leading zero digits
BigTrim(a) ==
  LET nz == {i \in 1..Len(a) : a[i] # 0}
  IN  IF nz = {} THEN <<>>
      ELSE SubSeq(a, 1, CHOOSE i \in nz : \A j \in nz : j <= i)

\* the number with the (unnormalised) digits t
BigNorm(t) ==
  LET r == NormR(t, 1, Len(t), 0) IN BigTrim(r.d \o BigFromInt(r.c))

Digit(a, i) == IF i <= Len(a) THEN a[i] ELSE 0

BigAdd(a, b) ==
  IF a = <<>> THEN b
  ELSE IF b = <<>> THEN a
  ELSE BigNorm([i \in 1..(IF Len(a) > Len(b) THEN Len(a) ELSE Len(b)) |->
             Digit(a, i) + Digit(b, i)])

\* a - b for b <= a
BigSub(a, b) ==
  IF b = <<>> THEN a ELSE BigNorm([i \in 1..Len(a) |-> a[i] - Digit(b, i)])

\* a * m for an integer 0 <= m <= 2000000
BigMulInt(a, m) ==
  IF a = <<>> \/ m = 0 THEN <<>> ELSE BigNorm([i \in 1..Len(a) |-> a[i] * m])

BigMul(a, b) ==
  IF a = <<>> \/ b = <<>> THEN <<>>
  ELSE BigNorm([k \in 1..(Len(a) + Len(b) - 1) |->
         LET lo == IF k + 1 - Len(b) > 1 THEN k + 1 - Len(b) ELSE 1
             hi == IF k < Len(a) THEN k ELSE Len(a)
         IN  SumSeq([j \in 1..(hi - lo + 1) |-> a[lo + j - 1] * b[k + 2 - lo - j]])])

BigLess(a, b) ==
  IF Len(a) # Len(b) THEN Len(a) < Len(b)
  ELSE LET df == {i \in 1..Len(a) : a[i] # b[i]}
       IN  IF df = {} THEN FALSE
           ELSE LET m == CHOOSE i \in df : \A j \in df : j <= i IN a[m] < b[m]

(***************************************************************************)
(* Non-negative rationals [num, den] over the naturals above, den > 0,     *)
(* not normalised: equality and order are by cross-multiplication.         *)
(***************************************************************************)
QFrac(n, d) == [num |-> BigFromInt(n), den |-> BigFromInt(d)]
QInt(n) == QFrac(n, 1)
QLess(x, y) == BigLess(BigMul(x.num, y.den), BigMul(y.num, x.den))
QEq(x, y) == BigMul(x.num, y.den) = BigMul(y.num, x.den)
QLeq(x, y) == ~QLess(y, x)
QAdd(x, y) ==
  IF x.den = y.den
    THEN [num |-> BigAdd(x.num, y.num), den |-> x.den]
    ELSE [num |-> BigAdd(BigMul(x.num, y.den), BigMul(y.num, x.den)),
          den |-> BigMul(x.den, y.den)]
\* x - y for y <= x
QSub(x, y) ==
  IF x.den = y.den
    THEN [num |-> BigSub(x.num, y.num), den |-> x.den]
    ELSE [num |-> BigSub(BigMul(x.num, y.den), BigMul(y.num, x.den)),
          den |-> BigMul(x.den, y.den)]
QMul(x, y) == [num |-> BigMul(x.num, y.num), den |-> BigMul(x.den, y.den)]
\* x / y for y > 0
QDiv(x, y) == [num |-> BigMul(x.num, y.den), den |-> BigMul(x.den, y.num)]
QMulInt(x, m) == [num |-> BigMulInt(x.num, m), den |-> x.den]
QIsZero(x) == x.num = <<>>

(***************************************************************************)
(* JavaScript Numbers as they are: IEEE 754 binary64 values, for the       *)
(* positive, normal range.  A value is [m, x] standing for m * 2^x with m  *)
(* a natural above and x an integer; every operation computes the exact    *)
(* result and rounds it to 53 significant bits, ties to even.              *)
(***************************************************************************)
MantissaBits == 53

\* 2^n as a natural, by squaring
RECURSIVE Pow2Big(_)
Pow2Sq(h, odd) == IF odd THEN BigMulInt(BigMul(h, h), 2) ELSE BigMul(h, h)
Pow2Big(n) ==
  IF n < 20 THEN BigFromInt(2 ^ n) ELSE Pow2Sq(Pow2Big(n \div 2), n % 2 = 1)

\* a \div dv and a % dv for 0 < dv <= 1024: long division from the top digit
RECURSIVE DivR(_, _, _)
DivDigit(a, dv, i, U) ==
  [q |-> <<(U.r * BASE + a[i]) \div dv>> \o U.q, r |-> (U.r * BASE + a[i]) % dv]
DivR(a, dv, i) ==
  IF i > Len(a) THEN [q |-> <<>>, r |-> 0] ELSE DivDigit(a, dv, i, DivR(a, dv, i + 1))
BigDivInt(a, dv) ==
  LET U == DivR(a, dv, 1) IN [q |-> BigTrim(U.q), r |-> U.r]

\* a \div 2^s, and whether a bit that is 1 was shifted out
RECURSIVE ShiftR(_, _)
ShiftRest(D, s) ==
  LET U == ShiftR(D.q, s) IN [q |-> U.q, sticky |-> U.sticky \/ D.r # 0]
ShiftR(a, s) ==
  IF s = 0 THEN [q |-> a, sticky |-> FALSE]
  ELSE IF s <= 10 THEN ShiftRest(BigDivInt(a, 2 ^ s), 0)
  ELSE ShiftRest(BigDivInt(a, 2 ^ 10), s - 10)

\* the number of bits of m beyond MantissaBits (m > 0, m < 2^(3*MantissaBits))
ExcessBits(m) ==
  CHOOSE r \in 0..(2 * MantissaBits) :
    /\ BigLess(m, Pow2Big(MantissaBits + r))
    /\ IF r = 0 THEN TRUE ELSE ~BigLess(m, Pow2Big(MantissaBits + r - 1))

\* m * 2^x rounded to nearest, ties to even: the lowest r bits are dropped;
\* S is m shifted by r - 1 bits, so that its last bit is the half bit
RoundShifted(S, r, x) ==
  LET half == Digit(S.q, 1) % 2 = 1
      q    == BigDivInt(S.q, 2).q
      odd  == Digit(q, 1) % 2 = 1
  IN  [m |-> IF half /\ (S.sticky \/ odd) THEN BigAdd(q, <<1>>) ELSE q,
       x |-> x + r]
RoundBits(m, x, r) ==
  IF r = 0 THEN [m |-> m, x |-> x] ELSE RoundShifted(ShiftR(m, r - 1), r, x)
NumRound(m, x) == RoundBits(m, x, ExcessBits(m))

NumFromInt(n) == [m |-> BigFromInt(n), x |-> 0]

\* the mantissas of a and b over the smaller of the two exponents
MinExp(a, b) == IF a.x < b.x THEN a.x ELSE b.x
Aligned(a, b) == BigMul(a.m, Pow2Big(a.x - MinExp(a, b)))

NumEq(a, b) == Aligned(a, b) = Aligned(b, a)
NumLess(a, b) == BigLess(Aligned(a, b), Aligned(b, a))

\* a * b, a + b, a - b (for b < a)
NumMul(a, b) == NumRound(BigMul(a.m, b.m), a.x + b.x)
NumAdd(a, b) == NumRound(BigAdd(Aligned(a, b), Aligned(b, a)), MinExp(a, b))
NumSub(a, b) == NumRound(BigSub(Aligned(a, b), Aligned(b, a)), MinExp(a, b))

\* n / dv for integers 0 < n <= 2000000, 0 < dv <= 1024: the quotient to
\* DivBits binary places, with one more bit that is 1 when the division left
\* a remainder, rounded
DivBits == MantissaBits + 27
NumOfQuotient(D) ==
  NumRound(BigAdd(BigMulInt(D.q, 2), IF D.r # 0 THEN <<1>> ELSE <<>>), -DivBits - 1)
NumDivInt(n, dv) == NumOfQuotient(BigDivInt(BigMulInt(Pow2Big(DivBits), n), dv))

\* |a - b|, exactly (not rounded)
NumGap(a, b) ==
  [m |-> IF NumLess(a, b) THEN BigSub(Aligned(b, a), Aligned(a, b))
         ELSE BigSub(Aligned(a, b), Aligned(b, a)),
   x |-> MinExp(a, b)]

(***************************************************************************)
(* Helpers on price sequences (JavaScript Array.prototype.slice, reduce).  *)
(***************************************************************************)
\* JavaScript null where an object is expected
Null == [null |-> TRUE]

Abs(x) == IF x < 0 THEN -x ELSE x
Min2(a, b) == IF a < b THEN a ELSE b
Max2(a, b) == IF a > b THEN a ELSE b

\* d.slice(-p): the last p elements (all of d when it is shorter)
Last(d, p) == SubSeq(d, Max2(1, Len(d) - p + 1), Len(d))
\* d.slice(0, p)
First(d, p) == SubSeq(d, 1, Min2(p, Len(d)))
\* d.slice(0, -1)
ButLast(d) == SubSeq(d, 1, Len(d) - 1)

\* d.slice(b, e) with JavaScript's 0-based indices, a negative b counted from
\* the end, and an empty result when the range is empty
JsSlice(d, b, e) ==
  LET lo == IF b < 0 THEN Max2(Len(d) + b, 0) ELSE Min2(b, Len(d))
      hi == IF e < 0 THEN Max2(Len(d) + e, 0) ELSE Min2(e, Len(d))
  IN  IF lo >= hi THEN <<>> ELSE SubSeq(d, lo + 1, hi)

(***************************************************************************)
(* Technical indicator functions, src/server/index.js:520-557.  Prices are *)
(* positive integers; a result is Null or an exact value.                  *)
(***************************************************************************)
serverSma(d, p) ==
  IF Len(d) < p THEN Null ELSE QFrac(SumSeq(Last(d, p)), p)

\* One turn of the loop of serverEma, e = d[i]*k + e*(1-k) with k = 2/(p+1),
\* is the map e -> (A + M*e)/D with M = p-1, A = 2*d[i], D = p+1.
EmaStep(x, p) == [M |-> <<p - 1>>, A |-> BigFromInt(2 * x), D |-> <<p + 1>>]

\* first f, then g
EmaCompose(f, g) ==
  [M |-> BigMul(f.M, g.M),
   A |-> BigAdd(BigMul(g.M, f.A), BigMul(g.A, f.D)),
   D |-> BigMul(f.D, g.D)]

\* the turns for (1-based) indices lo..hi in order, composed by halves so that
\* the evaluation stays shallow
RECURSIVE EmaLoop(_, _, _, _)
EmaLoop(d, p, lo, hi) ==
  IF lo = hi THEN EmaStep(d[lo], p)
  ELSE EmaCompose(EmaLoop(d, p, lo, (lo + hi) \div 2),
                  EmaLoop(d, p, (lo + hi) \div 2 + 1, hi))

EmaApply(f, e) ==
  [num |-> BigAdd(BigMul(f.A, e.den), BigMul(f.M, e.num)),
   den |-> BigMul(f.D, e.den)]

serverEma(d, p) ==
  IF Len(d) < p THEN Null
  ELSE IF Len(d) = p THEN serverSma(First(d, p), p)
  ELSE EmaApply(EmaLoop(d, p, p + 1, Len(d)), serverSma(First(d, p), p))

\* serverSma on Numbers: the sum of integer prices is exact, the division is
\* rounded
serverSmaNumber(d, p) ==
  IF Len(d) < p THEN Null ELSE NumDivInt(SumSeq(Last(d, p)), p)

\* const k=2/(p+1) of serverEma, and 1-k
EmaK(p) == NumDivInt(2, p + 1)
EmaRest(p) == NumSub(NumFromInt(1), EmaK(p))

\* a turn of the loop that adds d[i]*k to e itself
EmaTurnNoDecay(x, e, p) == NumAdd(NumMul(NumFromInt(x), EmaK(p)), e)

\* one turn of the loop of serverEma on Numbers: e = d[i]*k + e*(1-k)
EmaTurnNumber(x, e, p) ==
  NumAdd(NumMul(NumFromInt(x), EmaK(p)), NumMul(e, EmaRest(p)))

\* c.push(d[i]-d[i-1]) for i = 1 .. d.length-1
Deltas(d) ==
  IF Len(d) < 2 THEN <<>> ELSE [i \in 1..(Len(d) - 1) |-> d[i + 1] - d[i]]

\* the sum of the positive deltas, and of the negative ones made positive
SumGains(c) == SumSeq([i \in 1..Len(c) |-> IF c[i] > 0 THEN c[i] ELSE 0])
SumLosses(c) == SumSeq([i \in 1..Len(c) |-> IF c[i] < 0 THEN -c[i] ELSE 0])

\* the same over a window of p + 1 changes
serverRsiWide(d, p) ==
  IF Len(d) < p + 1 THEN Null
  ELSE LET r == Last(Deltas(d), p + 1)
           G == SumGains(r)
           L == SumLosses(r)
       IN  IF L = 0 THEN QInt(100) ELSE QFrac(100 * G, G + L)
\* ag = G/p, al = L/p; 100 - 100/(1 + ag/al) = 100*G/(G+L)
serverRsi(d, p) ==
  IF Len(d) < p + 1 THEN Null
  ELSE LET r == Last(Deltas(d), p)
           G == SumGains(r)
           L == SumLosses(r)
       IN  IF L = 0 THEN QInt(100) ELSE QFrac(100 * G, G + L)

\* m = ema12 - ema26; the value is kept as its sign
serverMacd(d) ==
  IF Len(d) < 26 THEN Null
  ELSE LET e12 == serverEma(d, 12)
           e26 == serverEma(d, 26)
       IN  [bullish |-> QLess(e26, e12), negative |-> QLess(e12, e26)]

\* sum over x in sl[lo..hi] of (p*x - S)^2
RECURSIVE SumSqDev(_, _, _, _, _)
SumSqDev(sl, p, S, lo, hi) ==
  IF lo = hi THEN BigFromInt((p * sl[lo] - S) * (p * sl[lo] - S))
  ELSE BigAdd(SumSqDev(sl, p, S, lo, (lo + hi) \div 2),
              SumSqDev(sl, p, S, (lo + hi) \div 2 + 1, hi))

\* mid = S/p, variance v = sum (x - mid)^2 / p = W / p^3 with W = sum (p*x - S)^2;
\* upper = mid + 2*sqrt(v), lower = mid - 2*sqrt(v) are kept as (mid, v)
serverBb(d, p) ==
  IF Len(d) < p THEN Null
  ELSE LET sl == Last(d, p)
           S  == SumSeq(sl)
       IN  [S |-> S, p |-> p, W |-> SumSqDev(sl, p, S, 1, p)]

\* pos = (cur - lower)/(upper - lower) = 1/2 + (cur - mid)/(4*sqrt(v)).
\* pos < 0.15  iff  mid - cur > 1.4*sqrt(v)  iff  mid > cur and
\* (mid - cur)^2 > 1.96*v, i.e. 100*p*(S - p*cur)^2 > 196*W.  With v = 0 the
\* price equals mid and pos is 0/0 = NaN, which compares false both ways.
BbPosLow(cur, b) ==
  /\ b.S > b.p * cur
  /\ BigLess(BigMulInt(b.W, 196),
             BigMulInt(BigFromInt((b.S - b.p * cur) * (b.S - b.p * cur)), 100 * b.p))

\* pos > 0.85  iff  cur - mid > 1.4*sqrt(v)
BbPosHigh(cur, b) ==
  /\ b.p * cur > b.S
  /\ BigLess(BigMulInt(b.W, 196),
             BigMulInt(BigFromInt((b.p * cur - b.S) * (b.p * cur - b.S)), 100 * b.p))

\* !e: a JavaScript number is falsy when it is null or zero
Falsy(e) == e = Null \/ QIsZero(e)

serverEmaCrossover(prices) ==
  IF Len(prices) < 25 THEN Null
  ELSE LET e9   == serverEma(prices, 9)
           e21  == serverEma(prices, 21)
           e9p  == serverEma(ButLast(prices), 9)
           e21p == serverEma(ButLast(prices), 21)
       IN  IF Falsy(e9) \/ Falsy(e21) \/ Falsy(e9p) \/ Falsy(e21p) THEN Null
           ELSE [crossUp   |-> QLeq(e9p, e21p) /\ QLess(e21, e9),
                 crossDown |-> QLeq(e21p, e9p) /\ QLess(e9, e21),
                 bullish   |-> QLess(e21, e9)]

\* the value pushed for one window sl: 100 - 100/(1 + g/max(l, 0.001)),
\* that is 100*g/(g + max(l, 0.001)), in thousandths above and below
RollingRsi(sl) ==
  LET c == Deltas(sl)
      g == SumGains(c)
      l == SumLosses(c)
  IN  QMulInt(QFrac(1000 * g, 1000 * g + Max2(1000 * l, 1)), 100)

\* rs: one value for i = rp .. prices.length, from prices.slice(i-rp-1, i)
RsiSeries(prices, rp) ==
  [j \in 1..(Len(prices) - rp + 1) |->
     RollingRsi(JsSlice(prices, (j + rp - 1) - rp - 1, j + rp - 1))]

\* Math.min(...s), Math.max(...s), over s[lo..hi] by halves
RECURSIVE QMinR(_, _, _)
QMinOf(x, y) == IF QLess(y, x) THEN y ELSE x
QMinR(s, lo, hi) ==
  IF lo = hi THEN s[lo]
  ELSE QMinOf(QMinR(s, lo, (lo + hi) \div 2), QMinR(s, (lo + hi) \div 2 + 1, hi))

RECURSIVE QMaxR(_, _, _)
QMaxOf(x, y) == IF QLess(x, y) THEN y ELSE x
QMaxR(s, lo, hi) ==
  IF lo = hi THEN s[lo]
  ELSE QMaxOf(QMaxR(s, lo, (lo + hi) \div 2), QMaxR(s, (lo + hi) \div 2 + 1, hi))

QMin(s) == QMinR(s, 1, Len(s))
QMax(s) == QMaxR(s, 1, Len(s))

\* a variant that lets a series one point short of rp + sp through
serverStochRsiShort(prices, rp, sp) ==
  IF Len(prices) < rp + sp - 1 THEN Null
  ELSE LET rs == RsiSeries(prices, rp)
       IN  IF Len(rs) < sp THEN Null
           ELSE LET rec == Last(rs, sp)
                    mn  == QMin(rec)
                    mx  == QMax(rec)
                IN  IF QEq(mx, mn) THEN [k |-> QInt(50), signal |-> "NEUTRAL"]
                    ELSE LET k == QMulInt(QDiv(QSub(rs[Len(rs)], mn), QSub(mx, mn)), 100)
                         IN  [k |-> k,
                              signal |-> IF QLess(QInt(80), k) THEN "OVERBOUGHT"
                                         ELSE IF QLess(k, QInt(20)) THEN "OVERSOLD"
                                         ELSE IF QLess(QInt(50), k) THEN "BULLISH"
                                         ELSE "BEARISH"]

serverStochRsi(prices, rp, sp) ==
  IF Len(prices) < rp + sp THEN Null
  ELSE LET rs == RsiSeries(prices, rp)
       IN  IF Len(rs) < sp THEN Null
           ELSE LET rec == Last(rs, sp)
                    mn  == QMin(rec)
                    mx  == QMax(rec)
                IN  IF QEq(mx, mn) THEN [k |-> QInt(50), signal |-> "NEUTRAL"]
                    ELSE LET k == QMulInt(QDiv(QSub(rs[Len(rs)], mn), QSub(mx, mn)), 100)
                         IN  [k |-> k,
                              signal |-> IF QLess(QInt(80), k) THEN "OVERBOUGHT"
                                         ELSE IF QLess(k, QInt(20)) THEN "OVERSOLD"
                                         ELSE IF QLess(QInt(50), k) THEN "BULLISH"
                                         ELSE "BEARISH"]

\* v1, v2 and acc are kept times 3 (their signs are those of the code's values)
serverPriceVelocity(prices) ==
  IF Len(prices) < 10 THEN Null
  ELSE LET n   == Len(prices)
           v1  == prices[n] - prices[n - 3]
           v2  == prices[n - 4] - prices[n - 7]
           acc == v1 - v2
       IN  [velocity |-> v1, acceleration |-> acc,
            signal |-> IF v1 > 0 /\ acc > 0 THEN "ACCELERATING UP"
                       ELSE IF v1 < 0 /\ acc < 0 THEN "ACCELERATING DOWN"
                       ELSE IF v1 > 0 /\ acc < 0 THEN "DECELERATING UP"
                       ELSE IF v1 < 0 /\ acc > 0 THEN "DECELERATING DOWN"
                       ELSE "NEUTRAL"]

(***************************************************************************)
(* serverMakePrediction, src/server/index.js:559-631.  bullScore and       *)
(* bearScore are counted in half points (3 is 6, 2.5 is 5, 1.5 is 3,       *)
(* 0.5 is 1); margin is a fraction [num, den] of small integers.           *)
(***************************************************************************)
VelocityBull(vel) ==
  IF vel = Null THEN 0
  ELSE IF vel.signal = "ACCELERATING UP" THEN 6
  ELSE IF vel.signal = "DECELERATING UP" THEN 2
  ELSE 0

VelocityBear(vel) ==
  IF vel = Null THEN 0
  ELSE IF vel.signal = "ACCELERATING UP" THEN 0
  ELSE IF vel.signal = "DECELERATING UP" THEN 0
  ELSE IF vel.signal = "ACCELERATING DOWN" THEN 6
  ELSE IF vel.signal = "DECELERATING DOWN" THEN 2
  ELSE 0

RsiBull(rs) ==
  IF rs = Null THEN 0
  ELSE IF QLess(rs, QInt(30)) THEN 5
  ELSE IF QLess(QInt(70), rs) THEN 0
  ELSE IF QLess(rs, QInt(45)) THEN 2
  ELSE 0

\* a variant in which an RSI above 70 casts no bear vote
RsiBearNoOverbought(rs) ==
  IF rs = Null THEN 0
  ELSE IF QLess(rs, QInt(30)) THEN 0
  ELSE IF QLess(QInt(70), rs) THEN 0
  ELSE IF QLess(rs, QInt(45)) THEN 0
  ELSE IF QLess(QInt(55), rs) THEN 2
  ELSE 0

RsiBear(rs) ==
  IF rs = Null THEN 0
  ELSE IF QLess(rs, QInt(30)) THEN 0
  ELSE IF QLess(QInt(70), rs) THEN 5
  ELSE IF QLess(rs, QInt(45)) THEN 0
  ELSE IF QLess(QInt(55), rs) THEN 2
  ELSE 0

CrossBull(ec) ==
  IF ec = Null THEN 0
  ELSE IF ec.crossUp THEN 6
  ELSE IF ec.crossDown THEN 0
  ELSE IF ec.bullish THEN 3
  ELSE 0

CrossBear(ec) ==
  IF ec = Null THEN 0
  ELSE IF ec.crossUp THEN 0
  ELSE IF ec.crossDown THEN 6
  ELSE IF ec.bullish THEN 0
  ELSE 3

\* a variant that scores the bear side only for a negative MACD
MacdBearNegative(mc) == IF mc = Null THEN 0 ELSE IF mc.negative THEN 3 ELSE 0

MacdBull(mc) == IF mc = Null THEN 0 ELSE IF mc.bullish THEN 3 ELSE 0

MacdBear(mc) == IF mc = Null THEN 0 ELSE IF mc.bullish THEN 0 ELSE 3

BbBull(b, cur) == IF b = Null THEN 0 ELSE IF BbPosLow(cur, b) THEN 4 ELSE 0
BbBear(b, cur) ==
  IF b = Null THEN 0
  ELSE IF BbPosLow(cur, b) THEN 0
  ELSE IF BbPosHigh(cur, b) THEN 4
  ELSE 0

StochBull(sr) == IF sr = Null THEN 0 ELSE IF sr.signal = "OVERSOLD" THEN 4 ELSE 0
StochBear(sr) ==
  IF sr = Null THEN 0
  ELSE IF sr.signal = "OVERSOLD" THEN 0
  ELSE IF sr.signal = "OVERBOUGHT" THEN 4
  ELSE 0

\* A price that is null.  Every use of a reference price in the code is a
\* truthiness test or follows one, where null and 0 behave alike.
NoPrice == 0

\* a variant that takes null for a price of 0
PtbTruthyAlways(ptbPrice) == TRUE

\* if(ptbPrice)
PtbTruthy(ptbPrice) == ptbPrice # NoPrice

PtbBull(cur, ptbPrice) ==
  IF PtbTruthy(ptbPrice) /\ Abs(cur - ptbPrice) > 200 /\ cur > ptbPrice THEN 1 ELSE 0

PtbBear(cur, ptbPrice) ==
  IF PtbTruthy(ptbPrice) /\ Abs(cur - ptbPrice) > 200 /\ ~(cur > ptbPrice) THEN 1 ELSE 0

\* Math.round(x) for x = n/d >= 0: floor(x + 1/2)
RoundFrac(n, d) == (2 * n + d) \div (2 * d)

\* Math.floor in the place of Math.round
ConfidenceFloor(margin) ==
  LET n  == 52 * margin.den + 36 * margin.num
      d  == margin.den
      lo == IF n > 88 * d THEN 88 * d ELSE n
      hi == IF lo < 50 * d THEN 50 * d ELSE lo
  IN  hi \div d

\* Math.round(Math.max(50, Math.min(88, 52 + margin*36)))
Confidence(margin) ==
  LET n  == 52 * margin.den + 36 * margin.num
      d  == margin.den
      lo == IF n > 88 * d THEN 88 * d ELSE n
      hi == IF lo < 50 * d THEN 50 * d ELSE lo
  IN  RoundFrac(hi, d)

MinPoints == 26

\* a variant that calls a tie for UP
ScoreTallyTieUp(bullScore, bearScore) ==
  LET total  == IF bullScore + bearScore = 0 THEN 2 ELSE bullScore + bearScore
      margin == [num |-> Abs(2 * bullScore - total), den |-> total]
  IN  [willBeat   |-> 2 * bullScore >= total,
       confidence |-> Confidence(margin),
       bullScore  |-> bullScore,
       bearScore  |-> bearScore,
       margin     |-> margin]

ScoreTally(bullScore, bearScore) ==
  LET \* const total = bullScore + bearScore || 1, in half points
      total  == IF bullScore + bearScore = 0 THEN 2 ELSE bullScore + bearScore
      \* bullPct = bullScore/total; margin = |bullPct - 0.5| * 2
      margin == [num |-> Abs(2 * bullScore - total), den |-> total]
  IN  [willBeat   |-> 2 * bullScore > total,
       confidence |-> Confidence(margin),
       bullScore  |-> bullScore,
       bearScore  |-> bearScore,
       margin     |-> margin]

\* the body of serverMakePrediction after its length check
ScoreSignals(prices, ptbPrice) ==
       LET cur == prices[Len(prices)]
           vel == serverPriceVelocity(prices)
           rs  == serverRsi(prices, 14)
           ec  == serverEmaCrossover(prices)
           mc  == serverMacd(prices)
           b   == serverBb(prices, 20)
           sr  == serverStochRsi(prices, 14, 14)
       IN  ScoreTally(
             VelocityBull(vel) + RsiBull(rs) + CrossBull(ec) + MacdBull(mc)
               + BbBull(b, cur) + StochBull(sr) + PtbBull(cur, ptbPrice),
             VelocityBear(vel) + RsiBear(rs) + CrossBear(ec) + MacdBear(mc)
               + BbBear(b, cur) + StochBear(sr) + PtbBear(cur, ptbPrice))

\* the variant that lets a 25-point series through
serverMakePredictionShort(prices, ptbPrice) ==
  IF Len(prices) < MinPoints - 1 THEN Null ELSE ScoreSignals(prices, ptbPrice)

serverMakePrediction(prices, ptbPrice) ==
  IF Len(prices) < MinPoints THEN Null ELSE ScoreSignals(prices, ptbPrice)

(***************************************************************************)
(* The lock timing of runAutoPrediction, src/server/index.js:688-695.      *)
(* lockAfter is a fraction [num, den] of integers, den > 0.                *)
(***************************************************************************)
MIN_WAIT == 2
MAX_WAIT == 15
CLOSE == 30
CLEAR == 150
NO_PTB_DIFF == 999

Frac(n) == [num |-> n, den |-> 1]
FracLess(x, y) == x.num * y.den < y.num * x.den
FracEq(x, y) == x.num * y.den = y.num * x.den
FracSub(x, y) == [num |-> x.num * y.den - y.num * x.den, den |-> x.den * y.den]
FracMax(x, y) == IF FracLess(x, y) THEN y ELSE x

\* const priceDiff = serverHourlyPtb.price ? Math.abs(last - price) : 999
PriceDiff(prices, ptbPrice) ==
  IF PtbTruthy(ptbPrice) THEN Abs(prices[Len(prices)] - ptbPrice) ELSE NO_PTB_DIFF

\* lockAfter before the margin is looked at (lines 691-694)
LockAfterBase(priceDiff) ==
  IF priceDiff >= CLEAR THEN Frac(MIN_WAIT)
  ELSE IF priceDiff <= CLOSE THEN Frac(MAX_WAIT)
  ELSE \* t = (priceDiff-CLOSE)/(CLEAR-CLOSE); MAX_WAIT - t*(MAX_WAIT-MIN_WAIT)
       [num |-> MAX_WAIT * (CLEAR - CLOSE) - (priceDiff - CLOSE) * (MAX_WAIT - MIN_WAIT),
        den |-> CLEAR - CLOSE]

\* a variant that never looks at the margin
LockAfterNoMargin(priceDiff, margin) == LockAfterBase(priceDiff)

\* the margin adjustment without its Math.max(MIN_WAIT, ...)
LockAfterNoFloor(priceDiff, margin) ==
  IF 2 * margin.num > margin.den
    THEN FracSub(LockAfterBase(priceDiff), [num |-> 3 * margin.num, den |-> margin.den])
    ELSE LockAfterBase(priceDiff)

\* if(result.margin>0.5) lockAfter = Math.max(MIN_WAIT, lockAfter - result.margin*3)
LockAfter(priceDiff, margin) ==
  IF 2 * margin.num > margin.den
    THEN FracMax(Frac(MIN_WAIT),
                 FracSub(LockAfterBase(priceDiff),
                         [num |-> 3 * margin.num, den |-> margin.den]))
    ELSE LockAfterBase(priceDiff)

(***************************************************************************)
(* State.                                                                  *)
(***************************************************************************)
VARIABLES
  \* ScoreSpec: the inputs handed to the scorer and what it returned
  series,      \* the price series, oldest first
  turned,      \* whether the series has changed its step once already
  scored,      \* whether scoreResult and commitAfter are those of (series, ptbIn)
  ptbIn,       \* the reference price handed to the scorer (NoPrice: none)
  scoreResult, \* what serverMakePrediction returned
  commitAfter, \* the commit offset computed for that result (Null: none)
  emaRun,      \* a call of serverEma on Numbers: [d, p, pc, i, e]
  \* Spec: the hourly prediction lock
  now,                  \* the wall clock: [hour, minute, sec]
  resetDue,             \* the one-second timer has yet to fire in this second
  market,               \* the price path of each hour so far (hour h at h + 1)
  serverHourlyPredLock, \* [hour, prediction, ts]
  serverHourlyPtb,      \* [price, hour, timestamp]
  ticks,                \* the invocations of runAutoPrediction
  \* CacheSpec: the caches of the market data
  clock,           \* the present instant, as an index into Instants
  candleCache,     \* [results, lastFetch]
  whaleCache,      \* [trades, lastFetch]
  topTradersCache, \* [wallets, lastDiscovery]
  scanned,         \* the answers of the scan that topTradersCache.wallets came from
  lastScan,        \* Date.now() when the latest scan started, 0 before the first
  candleReqs,      \* the GET /api/recent-candles requests
  whaleReqs,       \* the GET /api/whale-trades requests
  \* AuthSpec: the access database and the sessions
  usersTable,      \* the rows of table users, by discord_id
  jwts,            \* the payloads of the session cookies signed so far
  uuids,           \* the number of crypto.randomUUID() calls so far
  lastReply,       \* what the latest command or request was answered
  revokeLog        \* the users revokeUser was called for, and returned true for

scoreVars == <<series, turned, scored, ptbIn, scoreResult, commitAfter, emaRun>>
lockVars == <<now, resetDue, market, serverHourlyPredLock, serverHourlyPtb, ticks>>
cacheVars ==
  <<clock, candleCache, whaleCache, topTradersCache, scanned, lastScan,
    candleReqs, whaleReqs>>
authVars == <<usersTable, jwts, uuids, lastReply, revokeLog>>
vars == <<scoreVars, lockVars, cacheVars, authVars>>

\* no call of serverEma on Numbers under way
EmaIdle == [d |-> <<>>, p |-> 0, pc |-> "idle", i |-> 0, e |-> Null]

\* the values of the variables of a part of the program that is not running
ScoreAtRest ==
  /\ series = <<>>
  /\ turned = FALSE
  /\ scored = FALSE
  /\ ptbIn = NoPrice
  /\ scoreResult = Null
  /\ commitAfter = Null
  /\ emaRun = EmaIdle

LockAtRest ==
  /\ now = [hour |-> 0, minute |-> 0, sec |-> 0]
  /\ resetDue = FALSE
  /\ market = <<>>
  /\ serverHourlyPredLock = [hour |-> -1, prediction |-> Null, ts |-> 0]
  /\ serverHourlyPtb = [price |-> NoPrice, hour |-> -1, timestamp |-> 0]
  /\ ticks = <<>>

\* an empty table users, no cookie signed, nothing answered
NoReply == [op |-> "none", status |-> 0, user |-> 0, code |-> 0, isNew |-> FALSE]
AuthAtRest ==
  /\ usersTable = <<>>
  /\ jwts = {}
  /\ uuids = 0
  /\ lastReply = NoReply
  /\ revokeLog = [asked |-> {}, done |-> {}]

CacheAtRest ==
  /\ clock = 1
  /\ candleCache = [results |-> <<>>, lastFetch |-> 0]
  /\ whaleCache = [trades |-> Null, lastFetch |-> 0]
  /\ topTradersCache = [wallets |-> <<>>, lastDiscovery |-> 0]
  /\ scanned = <<>>
  /\ lastScan = 0
  /\ candleReqs = <<>>
  /\ whaleReqs = <<>>

(***************************************************************************)
(* ScoreSpec: serverMakePrediction and the lock timing applied to price    *)
(* series of up to MaxLen points that start at StartPrice and move by a    *)
(* constant step, changing the step at most once, and to the 30-point      *)
(* series 100, 101, ..., 129.                                              *)
(***************************************************************************)
MaxLen == 27
StepSize == 1
StartPrice == 100

Ramp30 == [i \in 1..30 |-> 99 + i]

Steps == {-StepSize, 0, StepSize}
\* none, at the start price, between CLOSE and CLEAR away (in the middle and
\* near CLEAR), beyond 200 away
PtbInputs == {NoPrice, Ramp30[1], StartPrice, StartPrice + 80, StartPrice + 135,
              StartPrice + 250}

ScoreInit ==
  /\ series \in {<<>>, Ramp30}
  /\ turned = FALSE
  /\ scored = FALSE
  /\ ptbIn = NoPrice
  /\ scoreResult = Null
  /\ commitAfter = Null
  /\ emaRun = EmaIdle
  /\ LockAtRest
  /\ CacheAtRest
  /\ AuthAtRest

\* whether appending the last price plus step continues the series' last step
KeepsStep(d, step) ==
  IF Len(d) < 2 THEN TRUE ELSE step = d[Len(d)] - d[Len(d) - 1]

\* the series grows by one point
Extend(step) ==
  /\ Len(series) < MaxLen
  /\ (IF KeepsStep(series, step) THEN TRUE ELSE ~turned)
  /\ series' = Append(series, IF series = <<>> THEN StartPrice
                              ELSE series[Len(series)] + step)
  /\ turned' = (IF KeepsStep(series, step) THEN turned ELSE TRUE)
  /\ scored' = FALSE
  /\ ptbIn' = NoPrice
  /\ scoreResult' = Null
  /\ commitAfter' = Null
  /\ UNCHANGED emaRun

\* serverMakePrediction(prices, ptbPrice), and the lock timing for its result
Score(ptb) ==
  /\ ~scored
  /\ scored' = TRUE
  /\ ptbIn' = ptb
  /\ scoreResult' = serverMakePrediction(series, ptb)
  /\ commitAfter' = IF scoreResult' = Null THEN Null
                  ELSE LockAfter(PriceDiff(series, ptb), scoreResult'.margin)
  /\ UNCHANGED <<series, turned, emaRun>>

ScoreNext ==
  \/ \E step \in Steps : Extend(step) /\ UNCHANGED <<lockVars, cacheVars, authVars>>
  \/ \E ptb \in PtbInputs : Score(ptb) /\ UNCHANGED <<lockVars, cacheVars, authVars>>

ScoreSpec == ScoreInit /\ [][ScoreNext]_vars

(***************************************************************************)
(* EmaSpec: serverEma computed on Numbers, turn by turn of its loop, for   *)
(* constant series of up to MaxMore points beyond the period.              *)
(***************************************************************************)
MaxMore == 4
MaxValue == 7

\* the periods serverEmaCrossover and serverMacd call serverEma with
EmaPeriods == {9, 21, 12, 26}
EmaValues == (1..MaxValue) \cup {StartPrice, StartPrice + 1}

EmaInit ==
  /\ emaRun \in {[d |-> <<>>, p |-> p, pc |-> "input", i |-> 0, e |-> Null] :
                   p \in EmaPeriods}
  /\ series = <<>>
  /\ turned = FALSE
  /\ scored = FALSE
  /\ ptbIn = NoPrice
  /\ scoreResult = Null
  /\ commitAfter = Null
  /\ LockAtRest
  /\ CacheAtRest
  /\ AuthAtRest

\* the constant series grows by one point
EmaExtend(v) ==
  /\ emaRun.pc = "input"
  /\ Len(emaRun.d) < emaRun.p + MaxMore
  /\ IF emaRun.d = <<>> THEN TRUE ELSE v = emaRun.d[1]
  /\ emaRun' = [emaRun EXCEPT !.d = Append(emaRun.d, v)]

\* serverEma(d,p) is called: null for a short series, else
\* e=serverSma(d.slice(0,p),p) and i=p
EmaEnter ==
  /\ emaRun.pc = "input"
  /\ emaRun' =
       IF Len(emaRun.d) < emaRun.p
         THEN [emaRun EXCEPT !.pc = "returned", !.e = Null]
         ELSE [emaRun EXCEPT !.pc = "loop", !.i = emaRun.p,
                             !.e = serverSmaNumber(First(emaRun.d, emaRun.p), emaRun.p)]

\* for(let i=p;i<d.length;i++) e=d[i]*k+e*(1-k): one turn (d[i] is 0-based)
EmaTurn ==
  /\ emaRun.pc = "loop"
  /\ emaRun.i < Len(emaRun.d)
  /\ emaRun' = [emaRun EXCEPT !.i = emaRun.i + 1,
                              !.e = EmaTurnNumber(emaRun.d[emaRun.i + 1], emaRun.e, emaRun.p)]

\* return e
EmaReturn ==
  /\ emaRun.pc = "loop"
  /\ emaRun.i >= Len(emaRun.d)
  /\ emaRun' = [emaRun EXCEPT !.pc = "returned"]

EmaNext ==
  \/ \E v \in EmaValues : EmaExtend(v)
       /\ UNCHANGED <<series, turned, scored, ptbIn, scoreResult, commitAfter, lockVars, cacheVars, authVars>>
  \/ EmaEnter
       /\ UNCHANGED <<series, turned, scored, ptbIn, scoreResult, commitAfter, lockVars, cacheVars, authVars>>
  \/ EmaTurn
       /\ UNCHANGED <<series, turned, scored, ptbIn, scoreResult, commitAfter, lockVars, cacheVars, authVars>>
  \/ EmaReturn
       /\ UNCHANGED <<series, turned, scored, ptbIn, scoreResult, commitAfter, lockVars, cacheVars, authVars>>

EmaSpec == EmaInit /\ [][EmaNext]_vars

(***************************************************************************)
(* StochSpec: serverStochRsi with its default periods applied to the price *)
(* series that start with the 20 points of StochBase and go on, up to      *)
(* MaxStochLen points, by steps of 1 up or 2 down in any order.            *)
(***************************************************************************)
MaxStochLen == 29

StochBase == [i \in 1..20 |-> StartPrice + (i % 3)]
StochSteps == {-2, 1}

StochInit ==
  /\ series = StochBase
  /\ turned = FALSE
  /\ scored = FALSE
  /\ ptbIn = NoPrice
  /\ scoreResult = Null
  /\ commitAfter = Null
  /\ emaRun = EmaIdle
  /\ LockAtRest
  /\ CacheAtRest
  /\ AuthAtRest

\* the series grows by one point
StochExtend(step) ==
  /\ Len(series) < MaxStochLen
  /\ series' = Append(series, series[Len(series)] + step)
  /\ scored' = FALSE
  /\ scoreResult' = Null
  /\ UNCHANGED <<turned, ptbIn, commitAfter, emaRun>>

\* const sr = serverStochRsi(prices)
StochScore ==
  /\ ~scored
  /\ scored' = TRUE
  /\ scoreResult' = serverStochRsi(series, 14, 14)
  /\ UNCHANGED <<series, turned, ptbIn, commitAfter, emaRun>>

StochNext ==
  \/ \E step \in StochSteps : StochExtend(step) /\ UNCHANGED <<lockVars, cacheVars, authVars>>
  \/ StochScore /\ UNCHANGED <<lockVars, cacheVars, authVars>>

StochSpec == StochInit /\ [][StochNext]_vars

(***************************************************************************)
(* Spec: the hourly prediction lock.  runAutoPrediction, the requests      *)
(* POST /api/pred-lock-hourly and POST /api/ptb-hourly and the one-second  *)
(* reset timer run against a wall clock and a market.                      *)
(*                                                                         *)
(* The clock is [hour, minute, sec]: hour counts the hours since the       *)
(* server's first one, sec is followed through seconds 0..4 of minute 0    *)
(* (5: any later second of minute 0) and is 0 in every other minute.  The  *)
(* instants visited are seconds 0..5 of minute 0, minutes 1..MaxEarly,     *)
(* minutes FirstFull..MaxLate and minute 59 of hours 0..MaxHour.           *)
(***************************************************************************)
MaxHour == 1
MaxEarly == 2
MaxLate == 25
MaxTicks == 2

\* the number of candles a tick needs (line 659), and the first minute in
\* which the hour has that many
NeedCandles == 26
FirstFull == NeedCandles - 1
Minutes == (0..MaxEarly) \cup (FirstFull..MaxLate) \cup {59}
NextMinute(mi) == CHOOSE n \in Minutes : n > mi /\ \A o \in Minutes : o > mi => n <= o

\* new Date().getUTCHours(), new Date().getMinutes(), new Date().getSeconds()
UTCHours == now.hour % 24
NowMinutes == now.minute
NowSeconds == now.sec
\* Date.now(), kept to the hour (hour 0 is the second hour after the origin,
\* so that no instant is 0).  The one place that reads a time stamp, line 120,
\* asks whether it is less than an hour old and does so only for a reference
\* price of the current hour of the day, where that means: of this very hour.
DateNow == now.hour + 1
HourMs == 1

\* The market: the hour's open and its sixty one-minute closes, by the shape
\* of the hour.  "far" stays 160..260 above its open, "near" within 12 of
\* it, "mid" falls from 40 to 160 below it.
Shapes == {"far", "near", "mid"}
OpenOf(sh) == IF sh = "far" THEN 60000 ELSE IF sh = "near" THEN 61000 ELSE 62000
CloseOf(sh, i) ==
  IF sh = "far" THEN 60000 + 220 + 10 * ((7 * i) % 5) - i
  ELSE IF sh = "near" THEN 61000 - 12 + 4 * ((3 * i) % 7)
  ELSE 62000 - 40 - 2 * i + 3 * ((5 * i) % 4)
Closes(sh, n) == [i \in 1..n |-> CloseOf(sh, i)]

\* what the 1m klines request of a tick started in hour startHour answers at
\* the present instant: the closes of that hour's candles that exist by now
\* (klines.filter(k=>k[0]>=startMs).map(k=>parseFloat(k[4])), limit=60)
KlinesNow(startHour) ==
  IF startHour = now.hour THEN Closes(market[startHour + 1], now.minute + 1)
  ELSE Closes(market[startHour + 1], 60)

\* what the 1h klines request answers: the open of the present hour's candle
OpenNow == OpenOf(market[now.hour + 1])

\* the price of POST /api/ptb-hourly that passes the range check
PostedPrice == 60100
\* the reference prices serverHourlyPtb.price can hold
PtbPrices == {NoPrice, PostedPrice} \cup {OpenOf(sh) : sh \in Shapes}
\* the price series a tick can hand to serverMakePrediction
FullSeries ==
  {Closes(sh, n) : sh \in Shapes, n \in {mi + 1 : mi \in {x \in Minutes : x >= FirstFull}}}

\* serverMakePrediction on the arguments a tick can hand to it, computed once
PredictionTable ==
  {[prices |-> fs, ptbPrice |-> pp, result |-> serverMakePrediction(fs, pp)] :
     fs \in FullSeries, pp \in PtbPrices}
Predicted(prices, ptbPrice) ==
  (CHOOSE e \in PredictionTable : e.prices = prices /\ e.ptbPrice = ptbPrice).result

OpenLock == [hour |-> -1, prediction |-> Null, ts |-> 0]
NoPtb == [price |-> NoPrice, hour |-> -1, timestamp |-> 0]

\* an invocation of runAutoPrediction that is not running; outcome tells how
\* the run of this slot that ended at the present instant ended
IdleTick(outcome) ==
  [pc |-> "idle", currentHour |-> -1, startHour |-> -1, prices |-> <<>>,
   outcome |-> outcome]

Init ==
  /\ now = [hour |-> 0, minute |-> 0, sec |-> 5]
  /\ resetDue = FALSE
  /\ market \in {<<sh>> : sh \in Shapes}
  /\ serverHourlyPredLock = OpenLock
  /\ serverHourlyPtb = NoPtb
  /\ ticks = [t \in 1..MaxTicks |-> IdleTick("none")]
  /\ ScoreAtRest
  /\ CacheAtRest
  /\ AuthAtRest

\* ---- the clock ----
\* time passes: the runs that have ended are no longer of the present instant
Settled == [t \in 1..MaxTicks |->
             IF ticks[t].pc = "idle" THEN IdleTick("none") ELSE ticks[t]]

\* the next second of seconds 0..4 of minute 0; the one-second timer fires
\* once in each of them
AdvanceSecond ==
  /\ now.minute = 0
  /\ now.sec < 5
  /\ ~resetDue
  /\ now' = [now EXCEPT !.sec = now.sec + 1]
  /\ resetDue' = (now.sec + 1 < 5)
  /\ ticks' = Settled
  /\ UNCHANGED <<market, serverHourlyPredLock, serverHourlyPtb>>

AdvanceMinute ==
  /\ now.minute < 59
  /\ (IF now.minute = 0 THEN now.sec = 5 ELSE TRUE)
  /\ now' = [now EXCEPT !.minute = NextMinute(now.minute), !.sec = 0]
  /\ ticks' = Settled
  /\ UNCHANGED <<resetDue, market, serverHourlyPredLock, serverHourlyPtb>>

\* the next hour begins, with a market of shape sh
AdvanceHour(sh) ==
  /\ now.minute = 59
  /\ now.hour < MaxHour
  /\ now' = [hour |-> now.hour + 1, minute |-> 0, sec |-> 0]
  /\ resetDue' = TRUE
  /\ market' = Append(market, sh)
  /\ ticks' = Settled
  /\ UNCHANGED <<serverHourlyPredLock, serverHourlyPtb>>

\* a timer that fires and leaves the lock as it is
ResetTimerIdle ==
  /\ resetDue
  /\ resetDue' = FALSE
  /\ UNCHANGED <<now, market, serverHourlyPredLock, serverHourlyPtb, ticks>>

\* ---- setInterval(()=>{...},1000): reset the lock at the top of the hour ----
ResetTimer ==
  /\ resetDue
  /\ resetDue' = FALSE
  /\ serverHourlyPredLock' =
       IF NowMinutes = 0 /\ NowSeconds < 5 THEN OpenLock ELSE serverHourlyPredLock
  /\ UNCHANGED <<now, market, serverHourlyPtb, ticks>>

\* a variant that stores the price for whatever hour the body names
PostPtbHourlyAnyHour(price, hour) ==
  /\ serverHourlyPtb' =
       IF price # NoPrice /\ price > 30000 /\ price < 200000 /\ hour >= 0 /\ hour <= 23
         THEN [price |-> price, hour |-> hour, timestamp |-> DateNow]
         ELSE serverHourlyPtb
  /\ UNCHANGED <<now, resetDue, market, serverHourlyPredLock, ticks>>

\* ---- POST /api/ptb-hourly ----
PostPtbHourly(price, hour) ==
  /\ serverHourlyPtb' =
       IF price # NoPrice /\ price > 30000 /\ price < 200000 /\ hour >= 0 /\ hour <= 23
         THEN IF hour = UTCHours
                THEN [price |-> price, hour |-> hour, timestamp |-> DateNow]
                ELSE serverHourlyPtb
         ELSE serverHourlyPtb
  /\ UNCHANGED <<now, resetDue, market, serverHourlyPredLock, ticks>>

\* GET /api/ptb-hourly: the response
GetPtbHourly ==
  IF serverHourlyPtb.price # NoPrice /\ serverHourlyPtb.hour = UTCHours
       /\ DateNow - serverHourlyPtb.timestamp < HourMs
    THEN [price |-> serverHourlyPtb.price, hour |-> serverHourlyPtb.hour]
    ELSE [price |-> NoPrice]

\* a variant that stores whatever prediction the body carries, null included
PostPredLockHourlyAnyBody(hour, prediction, ts) ==
  /\ serverHourlyPredLock' =
       IF hour = UTCHours /\ serverHourlyPredLock.hour # UTCHours
         THEN [hour |-> hour, prediction |-> prediction,
               ts |-> IF ts # 0 THEN ts ELSE DateNow]
         ELSE serverHourlyPredLock
  /\ UNCHANGED <<now, resetDue, market, serverHourlyPtb, ticks>>

\* ---- POST /api/pred-lock-hourly ----
PostPredLockHourly(hour, prediction, ts) ==
  /\ serverHourlyPredLock' =
       IF hour = UTCHours /\ prediction # Null
         THEN IF serverHourlyPredLock.hour # UTCHours
                THEN [hour |-> hour, prediction |-> prediction,
                      ts |-> IF ts # 0 THEN ts ELSE DateNow]
                ELSE serverHourlyPredLock
         ELSE serverHourlyPredLock
  /\ UNCHANGED <<now, resetDue, market, serverHourlyPtb, ticks>>

\* GET /api/pred-lock-hourly: the response
GetPredLockHourly ==
  IF serverHourlyPredLock.hour = UTCHours /\ serverHourlyPredLock.prediction # Null
    THEN serverHourlyPredLock
    ELSE [hour |-> Null, prediction |-> Null]

\* ---- runAutoPrediction ----
\* lines 685-706: the commit offset, and commit or wait; the lock and the way
\* the run ends, for a tick tk holding prices, with ptb the value of
\* serverHourlyPtb at this point and result the scorer's answer
CommitOrWait(tk, prices, ptb, result) ==
  IF result = Null
    THEN [lock |-> serverHourlyPredLock, outcome |-> "noresult"]
    ELSE IF FracLess(Frac(NowMinutes),
                     LockAfter(PriceDiff(prices, ptb.price), result.margin))
      THEN [lock |-> serverHourlyPredLock, outcome |-> "waiting"]
      ELSE [lock |-> [hour |-> tk.currentHour,
                      prediction |-> [willBeat   |-> result.willBeat,
                                      confidence |-> result.confidence,
                                      bullScore  |-> result.bullScore,
                                      bearScore  |-> result.bearScore],
                      ts |-> DateNow],
            outcome |-> "committed"]

\* lines 684-706 for tick t: score, then commit or wait, and return
Settle(t, prices, ptb) ==
  \E done \in {CommitOrWait(ticks[t], prices, ptb, Predicted(prices, ptb.price))} :
    /\ ticks' = [ticks EXCEPT ![t] = IdleTick(done.outcome)]
    /\ serverHourlyPredLock' = done.lock

\* a variant of TickStart without the check of the lock
TickStartNoCheck(t) ==
  /\ ticks[t].pc = "idle"
  /\ ticks' = [ticks EXCEPT ![t] =
       [pc |-> "klines", currentHour |-> UTCHours, startHour |-> now.hour,
        prices |-> <<>>, outcome |-> "none"]]
  /\ UNCHANGED <<now, resetDue, market, serverHourlyPredLock, serverHourlyPtb>>

\* lines 651-658: the tick begins; it returns when the lock is committed for
\* the current hour, else it sends the 1m klines request
TickStart(t) ==
  /\ ticks[t].pc = "idle"
  /\ ticks' = [ticks EXCEPT ![t] =
       IF serverHourlyPredLock.hour = UTCHours /\ serverHourlyPredLock.prediction # Null
         THEN IdleTick("skipped")
         ELSE [pc |-> "klines", currentHour |-> UTCHours, startHour |-> now.hour,
               prices |-> <<>>, outcome |-> "none"]]
  /\ UNCHANGED <<now, resetDue, market, serverHourlyPredLock, serverHourlyPtb>>

\* a variant in which a tick that gets no prices forgets the reference price
KlinesReturnForgetful(t, ok) ==
  /\ ticks[t].pc = "klines"
  /\ LET tk == ticks[t]
         prices == IF ok THEN KlinesNow(tk.startHour) ELSE <<>>
         ptbPrice == IF serverHourlyPtb.hour = tk.currentHour
                       THEN serverHourlyPtb.price ELSE NoPrice
     IN  IF ~ok
           THEN /\ ticks' = [ticks EXCEPT ![t] = IdleTick("failed")]
                /\ serverHourlyPtb' = NoPtb
                /\ UNCHANGED serverHourlyPredLock
         ELSE IF Len(prices) < NeedCandles
           THEN /\ ticks' = [ticks EXCEPT ![t] = IdleTick("short")]
                /\ UNCHANGED <<serverHourlyPredLock, serverHourlyPtb>>
         ELSE IF ~PtbTruthy(ptbPrice)
           THEN /\ ticks' = [ticks EXCEPT ![t] = [tk EXCEPT !.pc = "open", !.prices = prices]]
                /\ UNCHANGED <<serverHourlyPredLock, serverHourlyPtb>>
         ELSE Settle(t, prices, serverHourlyPtb) /\ UNCHANGED serverHourlyPtb
  /\ UNCHANGED <<now, resetDue, market>>

\* lines 658-670, and 684-706 when the reference price is known: the 1m
\* klines request answers (ok) or fails
KlinesReturn(t, ok) ==
  /\ ticks[t].pc = "klines"
  /\ LET tk == ticks[t]
         prices == IF ok THEN KlinesNow(tk.startHour) ELSE <<>>
         ptbPrice == IF serverHourlyPtb.hour = tk.currentHour
                       THEN serverHourlyPtb.price ELSE NoPrice
     IN  IF ~ok
           THEN /\ ticks' = [ticks EXCEPT ![t] = IdleTick("failed")]
                /\ UNCHANGED serverHourlyPredLock
         ELSE IF Len(prices) < NeedCandles
           THEN /\ ticks' = [ticks EXCEPT ![t] = IdleTick("short")]
                /\ UNCHANGED serverHourlyPredLock
         ELSE IF ~PtbTruthy(ptbPrice)
           THEN /\ ticks' = [ticks EXCEPT ![t] = [tk EXCEPT !.pc = "open", !.prices = prices]]
                /\ UNCHANGED serverHourlyPredLock
         ELSE Settle(t, prices, serverHourlyPtb)
  /\ UNCHANGED <<now, resetDue, market, serverHourlyPtb>>

\* lines 670-706: the 1h klines request answers (ok) or fails
OpenReturn(t, ok) ==
  /\ ticks[t].pc = "open"
  /\ LET tk == ticks[t]
         ptb == IF ok /\ OpenNow > 30000 /\ OpenNow < 200000
                  THEN [price |-> OpenNow, hour |-> tk.currentHour, timestamp |-> DateNow]
                  ELSE serverHourlyPtb
     IN  /\ serverHourlyPtb' = ptb
         /\ Settle(t, tk.prices, ptb)
  /\ UNCHANGED <<now, resetDue, market>>

\* ---- the requests the clients send ----
PostedPrices == {NoPrice, 30000, PostedPrice}
PostedHours == {UTCHours, (UTCHours + 1) % 24}
ClientPrediction == [willBeat |-> TRUE, confidence |-> 99, bullScore |-> 1, bearScore |-> 0]
ClientPredictions == {Null, ClientPrediction}
ClientTimes == {0, 9}

Next ==
  \/ AdvanceSecond /\ UNCHANGED <<scoreVars, cacheVars, authVars>>
  \/ AdvanceMinute /\ UNCHANGED <<scoreVars, cacheVars, authVars>>
  \/ \E sh \in Shapes : AdvanceHour(sh) /\ UNCHANGED <<scoreVars, cacheVars, authVars>>
  \/ ResetTimer /\ UNCHANGED <<scoreVars, cacheVars, authVars>>
  \/ \E price \in PostedPrices, hour \in PostedHours :
       PostPtbHourly(price, hour) /\ UNCHANGED <<scoreVars, cacheVars, authVars>>
  \/ \E hour \in PostedHours, prediction \in ClientPredictions, ts \in ClientTimes :
       PostPredLockHourly(hour, prediction, ts) /\ UNCHANGED <<scoreVars, cacheVars, authVars>>
  \/ \E t \in 1..MaxTicks : TickStart(t) /\ UNCHANGED <<scoreVars, cacheVars, authVars>>
  \/ \E t \in 1..MaxTicks, ok \in BOOLEAN : KlinesReturn(t, ok) /\ UNCHANGED <<scoreVars, cacheVars, authVars>>
  \/ \E t \in 1..MaxTicks, ok \in BOOLEAN : OpenReturn(t, ok) /\ UNCHANGED <<scoreVars, cacheVars, authVars>>

Spec == Init /\ [][Next]_vars

\* The timers keep firing and the requests of a tick are answered: every
\* tick that is idle starts again, the 1h klines request ends one way or the
\* other, and the 1m klines request does not fail for ever.
Fairness ==
  \A t \in 1..MaxTicks :
    /\ WF_vars(TickStart(t) /\ UNCHANGED <<scoreVars, cacheVars, authVars>>)
    /\ SF_vars(KlinesReturn(t, TRUE) /\ UNCHANGED <<scoreVars, cacheVars, authVars>>)
    /\ WF_vars(\E ok \in BOOLEAN : OpenReturn(t, ok) /\ UNCHANGED <<scoreVars, cacheVars, authVars>>)

LiveSpec == Spec /\ Fairness

(***************************************************************************)
(* CacheSpec: the caches of the market data.  GET /api/recent-candles      *)
(* keeps the recent candle results in candleCache, GET /api/whale-trades   *)
(* keeps the consensus of the top traders in whaleCache, and                *)
(* discoverTopTraders keeps the ranking of the traders in topTradersCache.  *)
(* A handler reads the shared state when it starts and writes it when its   *)
(* last fetch has returned; the other handlers run in between.  The code    *)
(* that follows an await of a promise that is already settled runs before   *)
(* any other handler, so it belongs to the same step.                       *)
(***************************************************************************)
Instants == <<0, 5, 10, 60, 300>>  \* seconds after StartSec at which something happens
StartSec == 6000
NowMs == (StartSec + Instants[clock]) * 1000   \* Date.now()
SecOf(ms) == ms \div 1000                      \* Math.floor(ms / 1000)
SlotSecs == 300
SlotOf(sec) == sec - (sec % SlotSecs)
WhaleTtl == 10000
CandleTtl == 60000
RediscoverAfter == 300000
MaxCandleReqs == 1
MaxWhaleReqs == 1

\* ---- the answers of the market service ----
\* A market lists its outcomes and their prices (here in cents).
Market(up, down) == [outcomes |-> <<"Up", "Down">>, outcomePrices |-> <<up, down>>]
NoWinner == ""
WinPrice == 90
\* outcomes.forEach((o, idx) => { if (price[idx] > 0.9) winner = o })
Winner(mkt) ==
  LET hits == {k \in 1..Len(mkt.outcomes) : mkt.outcomePrices[k] > WinPrice}
  IN IF hits = {} THEN NoWinner
     ELSE mkt.outcomes[CHOOSE k \in hits : \A j \in hits : j <= k]
\* winner.toLowerCase().includes('up'), on the outcome names of these markets
IncludesUp(name) == name \in {"Up", "UP", "up"}

\* ---- GET /api/recent-candles ----
FirstBack == 2
CandleBack == 11
\* (the freshness test with the time-to-live of the whale trades)
CandleFreshTenSeconds ==
  /\ Len(candleCache.results) > 0
  /\ NowMs - candleCache.lastFetch < WhaleTtl
CandleFresh ==
  /\ Len(candleCache.results) > 0
  /\ NowMs - candleCache.lastFetch < CandleTtl
\* The results of a scan that started at startSec and got the answers
\* fetched[1] (slot i = 2) .. fetched[10] (slot i = 11); Null is a fetch that
\* failed or returned no market.
CandleScan(startSec, fetched) ==
  LET slotTs(i) == SlotOf(startSec) - i * SlotSecs
      got == [k \in 1..(CandleBack - FirstBack + 1) |->
                IF fetched[k] = Null THEN Null
                ELSE IF Winner(fetched[k]) = NoWinner THEN Null
                ELSE [slot |-> slotTs(k + FirstBack - 1),
                      result |-> IF IncludesUp(Winner(fetched[k])) THEN "UP" ELSE "DOWN",
                      time |-> slotTs(k + FirstBack - 1) * 1000]]
      Pushed(e) == e # Null
  IN SelectSeq(got, Pushed)
\* The answers a scan can get: every fetch fails; every slot is resolved,
\* Up and Down in turn; one slot is unresolved, one fails, the others are Down.
CandleAnswers ==
  LET Slots == 1..(CandleBack - FirstBack + 1)
  IN { [k \in Slots |-> Null],
       [k \in Slots |-> IF k % 2 = 0 THEN Market(100, 0) ELSE Market(0, 100)],
       [k \in Slots |->
          IF k = 1 THEN Market(50, 50) ELSE IF k = 4 THEN Null ELSE Market(0, 100)] }
IdleCandle == [pc |-> "idle", nowSec |-> 0, response |-> Null, how |-> "none"]
\* how: "cache" the response came from the cache, "failed" every fetch of the
\* refresh failed, "refreshed" otherwise.
CandleStart(r) ==
  /\ candleReqs[r].pc # "scan"
  /\ IF CandleFresh
     THEN candleReqs' = [candleReqs EXCEPT ![r] =
            [pc |-> "done", nowSec |-> 0,
             response |-> [candles |-> candleCache.results], how |-> "cache"]]
     ELSE candleReqs' = [candleReqs EXCEPT ![r] =
            [pc |-> "scan", nowSec |-> SecOf(NowMs), response |-> Null, how |-> "none"]]
  /\ UNCHANGED <<clock, candleCache, whaleCache, topTradersCache, scanned, lastScan,
                 whaleReqs>>
CandleFinish(r, fetched) ==
  /\ candleReqs[r].pc = "scan"
  /\ \E results \in {CandleScan(candleReqs[r].nowSec, fetched)} :
       /\ candleCache' = [results |-> results, lastFetch |-> NowMs]
       /\ candleReqs' = [candleReqs EXCEPT ![r] =
            [pc |-> "done", nowSec |-> 0, response |-> [candles |-> results],
             how |-> IF \A k \in DOMAIN fetched : fetched[k] = Null
                     THEN "failed" ELSE "refreshed"]]
  /\ UNCHANGED <<clock, whaleCache, topTradersCache, scanned, lastScan, whaleReqs>>

\* ---- discoverTopTraders ----
TraderBack == 7
MinSize == 5
MinMarkets == 3
TopCount == 5
\* A wallet address: its first ten characters and the rest.
Wallet(prefix, rest) == [prefix |-> prefix, rest |-> rest]
NoWallet == Wallet("", "")
Slice10(wallet) == wallet.prefix       \* wallet.slice(0, 10)
Holder(wallet, name, outcome, size) ==
  [proxyWallet |-> wallet, name |-> name, outcome |-> outcome, size |-> size]
\* What the scan gets for one slot: Null when the market fetch fails or has
\* no market, otherwise the market and the answer of /holders.
SlotAnswer(mkt, holdersOk, holders) ==
  [market |-> mkt, holdersOk |-> holdersOk, holders |-> holders]
\* The records of one slot that holders.forEach counts.
Counted(answer) ==
  IF answer = Null THEN <<>>
  ELSE IF Winner(answer.market) = NoWinner \/ ~answer.holdersOk THEN <<>>
  ELSE LET Counts(h) == h.proxyWallet # NoWallet /\ h.size >= MinSize
           kept == SelectSeq(answer.holders, Counts)
       IN [k \in 1..Len(kept) |->
             [wallet |-> kept[k].proxyWallet,
              wasRight |-> kept[k].outcome = Winner(answer.market),
              size |-> kept[k].size,
              username |-> IF kept[k].name # "" THEN kept[k].name
                           ELSE Slice10(kept[k].proxyWallet)]]
\* All counted records of a scan, slot i = 2 first.
CountedAll(book) ==
  Counted(book[1]) \o Counted(book[2]) \o Counted(book[3]) \o
  Counted(book[4]) \o Counted(book[5]) \o Counted(book[6])
\* Object.entries(traderStats) for the counted records recs: one entry per
\* wallet, in the order in which the wallets were first counted.
StatsOf(recs) ==
  LET ws == {recs[k].wallet : k \in 1..Len(recs)}
      of(w) == {k \in 1..Len(recs) : recs[k].wallet = w}
      first(w) == CHOOSE k \in of(w) : \A j \in of(w) : k <= j
      SumSize[k \in 0..Len(recs)] ==
        [w \in ws |-> IF k = 0 THEN 0
                      ELSE SumSize[k - 1][w] + (IF recs[k].wallet = w THEN recs[k].size ELSE 0)]
      stat(w) == [wallet |-> w,
                  wins |-> Cardinality({k \in of(w) : recs[k].wasRight}),
                  losses |-> Cardinality({k \in of(w) : ~recs[k].wasRight}),
                  totalSize |-> SumSize[Len(recs)][w],
                  username |-> recs[first(w)].username]
  IN [n \in 1..Cardinality(ws) |->
        stat(CHOOSE w \in ws : Cardinality({v \in ws : first(v) < first(w)}) = n - 1)]
TraderStats(book) == StatsOf(CountedAll(book))
\* The comparator of the sort: a goes before b.
RanksBefore(a, b) ==
  IF a.wins * (b.wins + b.losses) # b.wins * (a.wins + a.losses)
  THEN a.wins * (b.wins + b.losses) > b.wins * (a.wins + a.losses)
  ELSE a.totalSize > b.totalSize
\* .filter(([_, s]) => s.wins + s.losses >= 3)
Enough(s) == s.wins + s.losses >= MinMarkets
\* (the entries left in the order in which they were found)
SortedAsFound(kept) == kept
\* .sort(...): Array.prototype.sort is stable
Sorted(kept) ==
  LET place(k) == 1 + Cardinality({j \in 1..Len(kept) :
                       \/ RanksBefore(kept[j], kept[k])
                       \/ (~RanksBefore(kept[k], kept[j]) /\ j < k)})
  IN [n \in 1..Len(kept) |-> kept[CHOOSE k \in 1..Len(kept) : place(k) = n]]
\* .slice(0, 5).map(...)
TopOf(sorted) ==
  [n \in 1..(IF Len(sorted) < TopCount THEN Len(sorted) ELSE TopCount) |->
     [wallet |-> sorted[n].wallet, username |-> sorted[n].username,
      winRate |-> [num |-> sorted[n].wins, den |-> sorted[n].wins + sorted[n].losses],
      wins |-> sorted[n].wins, losses |-> sorted[n].losses,
      totalSize |-> sorted[n].totalSize]]
Ranked(book) == TopOf(Sorted(SelectSeq(TraderStats(book), Enough)))
TradersFresh ==
  /\ Len(topTradersCache.wallets) > 0
  /\ NowMs - topTradersCache.lastDiscovery < RediscoverAfter

\* ---- the scans the model draws from ----
\* Every fetch fails; one trader is right in three windows; one trader has
\* three counted records in two windows; two traders over six windows; six
\* traders with three records each; two traders with fewer than three
\* records each.
Books ==
  LET WalletA == Wallet("0xaaaaaaaa", "01")
      WalletB == Wallet("0xbbbbbbbb", "02")
      Crowd == [n \in 1..6 |-> Wallet("0xcccccccc", <<"1", "2", "3", "4", "5", "6">>[n])]
      UpWon == Market(100, 0)
      OneRight == SlotAnswer(UpWon, TRUE, <<Holder(WalletA, "alice", "Up", 10)>>)
      BothSides ==
        SlotAnswer(UpWon, TRUE, <<Holder(WalletA, "alice", "Up", 10),
                                  Holder(WalletA, "alice", "Down", 10),
                                  Holder(WalletA, "alice", "Up", 4),
                                  Holder(NoWallet, "nobody", "Up", 50)>>)
      TwoTraders ==
        SlotAnswer(UpWon, TRUE, <<Holder(WalletA, "alice", "Down", 10),
                                  Holder(WalletB, "", "Up", 20)>>)
      Crowded ==
        SlotAnswer(UpWon, TRUE, [n \in 1..6 |->
           Holder(Crowd[n], "", IF n % 2 = 0 THEN "Up" ELSE "Down", 10 + (n % 3))])
      NoHolders == SlotAnswer(UpWon, FALSE, <<>>)
      Unresolved == SlotAnswer(Market(50, 50), TRUE, <<Holder(WalletA, "alice", "Up", 10)>>)
  IN { <<Null, Null, Null, Null, Null, Null>>,
       <<OneRight, Null, OneRight, NoHolders, OneRight, Unresolved>>,
       <<BothSides, OneRight, Null, Null, Null, Null>>,
       <<TwoTraders, TwoTraders, TwoTraders, OneRight, OneRight, OneRight>>,
       <<Crowded, Crowded, Crowded, TwoTraders, Null, Null>>,
       <<OneRight, TwoTraders, Null, NoHolders, Unresolved, Null>> }
ScanFailed(book) == \A i \in 1..(TraderBack - FirstBack + 1) : book[i] = Null

\* ---- GET /api/whale-trades ----
FracAdd(x, y) == [num |-> x.num * y.den + y.num * x.den, den |-> x.den * y.den]
NoBet == "null"
WhaleFresh ==
  /\ whaleCache.trades # Null
  /\ NowMs - whaleCache.lastFetch < WhaleTtl
Discovering ==
  [whaleBet |-> NoBet, topTrader |-> "Discovering...", winRate |-> Frac(0),
   totalTradesFound |-> 0]
\* (trader.winRate || 0.5) * size
Weight(trader, size) ==
  IF trader.winRate.num = 0 THEN [num |-> size, den |-> 2]
  ELSE [num |-> trader.winRate.num * size, den |-> trader.winRate.den]
Trade(back, type, side, outcome, usdcSize, size) ==
  [back |-> back, type |-> type, side |-> side, outcome |-> outcome,
   usdcSize |-> usdcSize, size |-> size]
\* What a request gets for the current market: whether the market was found,
\* the answer of /holders, and the answer of /activity for each of the first
\* three traders.  A trade's back is the number of slots its event lies
\* behind the current one.
Fetched(evtOk, holdersOk, holders, activity) ==
  [evtOk |-> evtOk, holdersOk |-> holdersOk, holders |-> holders, activity |-> activity]
\* The trader a holder is matched with: topTraders.wallets.find(...)
TraderOf(wallets, h) ==
  wallets[CHOOSE n \in 1..Len(wallets) :
            /\ wallets[n].wallet = h.proxyWallet
            /\ \A j \in 1..(n - 1) : wallets[j].wallet # h.proxyWallet]
HolderVote(trader, h) ==
  [username |-> trader.username,
   winRate |-> trader.winRate,
   direction |-> IF h.outcome = "Up" THEN "YES" ELSE "NO",
   size |-> h.size,
   outcome |-> h.outcome,
   weight |-> Weight(trader, h.size)]
\* The votes of the top traders among the holders of the current market.
HolderVotes(wallets, got) ==
  LET IsTop(h) == \E n \in 1..Len(wallets) : wallets[n].wallet = h.proxyWallet
  IN IF got.evtOk /\ got.holdersOk
     THEN [k \in 1..Len(SelectSeq(got.holders, IsTop)) |->
             HolderVote(TraderOf(wallets, SelectSeq(got.holders, IsTop)[k]),
                        SelectSeq(got.holders, IsTop)[k])]
     ELSE <<>>
SizeOf(tr) == IF tr.usdcSize # 0 THEN tr.usdcSize ELSE tr.size
TradeVote(trader, tr) ==
  [username |-> trader.username,
   winRate |-> trader.winRate,
   direction |-> IF tr.side = "BUY"
                 THEN (IF tr.outcome = "Up" THEN "YES" ELSE "NO")
                 ELSE (IF tr.outcome = "Up" THEN "NO" ELSE "YES"),
   size |-> SizeOf(tr),
   outcome |-> tr.outcome,
   weight |-> Weight(trader, SizeOf(tr))]
\* The votes added from /activity if the voters were not looked up.
ActivityVotesUnchecked(wallets, got, counted) ==
  LET asked == IF Len(wallets) < 3 THEN Len(wallets) ELSE 3
      InSlot(tr) == tr.back = 0 /\ tr.type = "TRADE"
      slotTrades(n) == IF got.activity[n].ok THEN SelectSeq(got.activity[n].trades, InSlot)
                       ELSE <<>>
      Adds[n \in 1..asked] == Len(slotTrades(n)) > 0
      nth(m) == CHOOSE n \in 1..asked :
                  Adds[n] /\ Cardinality({j \in 1..(n - 1) : Adds[j]}) = m - 1
  IN [m \in 1..Cardinality({n \in 1..asked : Adds[n]}) |->
        TradeVote(wallets[nth(m)], slotTrades(nth(m))[1])]
\* The votes added from /activity, given the votes counted from /holders.
ActivityVotes(wallets, got, counted) ==
  LET asked == IF Len(wallets) < 3 THEN Len(wallets) ELSE 3
      InSlot(tr) == tr.back = 0 /\ tr.type = "TRADE"
      slotTrades(n) == IF got.activity[n].ok THEN SelectSeq(got.activity[n].trades, InSlot)
                       ELSE <<>>
      \* only the first trade of a trader can be added: the ones after it
      \* find the trader's name among the voters
      Adds[n \in 1..asked] ==
        /\ Len(slotTrades(n)) > 0
        /\ \A k \in 1..Len(counted) : counted[k].username # wallets[n].username
        /\ \A j \in 1..(n - 1) : ~(Adds[j] /\ wallets[j].username = wallets[n].username)
      nth(m) == CHOOSE n \in 1..asked :
                  Adds[n] /\ Cardinality({j \in 1..(n - 1) : Adds[j]}) = m - 1
  IN [m \in 1..Cardinality({n \in 1..asked : Adds[n]}) |->
        TradeVote(wallets[nth(m)], slotTrades(nth(m))[1])]
\* yesVotes and noVotes after the votes in weighted
Votes(weighted) ==
  LET Sum[k \in 0..Len(weighted)] ==
        IF k = 0 THEN [yes |-> Frac(0), no |-> Frac(0)]
        ELSE IF weighted[k].direction = "YES"
             THEN [yes |-> FracAdd(Sum[k - 1].yes, weighted[k].weight), no |-> Sum[k - 1].no]
             ELSE [yes |-> Sum[k - 1].yes, no |-> FracAdd(Sum[k - 1].no, weighted[k].weight)]
  IN Sum[Len(weighted)]
\* (yesVotes - noVotes) / total
SpreadSigned(yesVotes, noVotes, total) ==
  [num |-> FracSub(yesVotes, noVotes).num * total.den,
   den |-> FracSub(yesVotes, noVotes).den * total.num]
\* |yesVotes - noVotes| / total
Spread(yesVotes, noVotes, total) ==
  [num |-> Abs(FracSub(yesVotes, noVotes).num) * total.den,
   den |-> Abs(FracSub(yesVotes, noVotes).den) * total.num]
WhaleResult(wallets, weighted, yesVotes, noVotes) ==
  [whaleBet |-> IF yesVotes.num > 0 \/ noVotes.num > 0
                THEN (IF FracLess(noVotes, yesVotes) THEN "YES" ELSE "NO")
                ELSE NoBet,
   topTrader |-> wallets[1].username,
   winRate |-> wallets[1].winRate,
   topTraders |-> [n \in 1..Len(wallets) |->
                     [username |-> wallets[n].username, winRate |-> wallets[n].winRate,
                      wins |-> wallets[n].wins, losses |-> wallets[n].losses]],
   voters |-> [k \in 1..Len(weighted) |->
                 [username |-> weighted[k].username, winRate |-> weighted[k].winRate,
                  direction |-> weighted[k].direction, size |-> weighted[k].size,
                  outcome |-> weighted[k].outcome]],
   yesWeight |-> yesVotes,
   noWeight |-> noVotes,
   totalTradesFound |-> Len(weighted),
   confidence |-> IF FracAdd(yesVotes, noVotes).num > 0
                  THEN Spread(yesVotes, noVotes, FracAdd(yesVotes, noVotes))
                  ELSE Frac(0)]
Weighed(wallets, weighted) ==
  WhaleResult(wallets, weighted, Votes(weighted).yes, Votes(weighted).no)
Consensus(wallets, got) ==
  Weighed(wallets, HolderVotes(wallets, got)
                     \o ActivityVotes(wallets, got, HolderVotes(wallets, got)))

\* ---- the answers the model draws from ----
\* Nothing answers; the market answers but not its holders; the holders
\* answer; the holders and the activity answer; only the activity answers;
\* the holders answer with positions that weigh the same on both sides.
FetchedNow ==
  LET NoActivity == [n \in 1..3 |-> [ok |-> FALSE, trades |-> <<>>]]
      Buying ==
        [n \in 1..3 |->
           [ok |-> TRUE,
            trades |-> <<Trade(1, "TRADE", "BUY", "Down", 40, 0),
                         Trade(0, "REDEEM", "BUY", "Down", 40, 0),
                         Trade(0, "TRADE", IF n = 1 THEN "BUY" ELSE "SELL", "Up", 0, 8),
                         Trade(0, "TRADE", "BUY", "Down", 90, 0)>>]]
      HeldNow == <<Holder(Wallet("0xaaaaaaaa", "01"), "alice", "Up", 12),
                   Holder(Wallet("0xbbbbbbbb", "02"), "", "Down", 7),
                   Holder(Wallet("0xcccccccc", "2"), "", "Down", 3)>>
      \* a trader on both sides with the same size, and a trader of the
      \* crowd who lost every market of the scan
      HeldEven == <<Holder(Wallet("0xaaaaaaaa", "01"), "alice", "Up", 12),
                    Holder(Wallet("0xaaaaaaaa", "01"), "alice", "Down", 12),
                    Holder(Wallet("0xcccccccc", "5"), "", "Up", 8)>>
  IN { Fetched(FALSE, FALSE, <<>>, NoActivity),
       Fetched(TRUE, TRUE, HeldEven, NoActivity),
       Fetched(TRUE, FALSE, <<>>, NoActivity),
       Fetched(TRUE, TRUE, HeldNow, NoActivity),
       Fetched(TRUE, TRUE, HeldNow, Buying),
       Fetched(FALSE, TRUE, HeldNow, Buying) }
\* A request: seen holds the answers its scan has got so far (traderStats is
\* built from them), wallets the ranking discoverTopTraders returned to it,
\* found the length of the ranking its own scan computed (-1 without a scan),
\* got the answers its consensus was computed from.
\* scan: "fresh" the ranking came from topTradersCache without a scan,
\* "failed" every fetch of the scan failed, "scanned" otherwise.
IdleWhale ==
  [pc |-> "idle", nowSec |-> 0, seen |-> <<>>, wallets |-> <<>>, found |-> -1,
   slot |-> 0, got |-> Null, response |-> Null, how |-> "none", scan |-> "none"]
WhaleStart(r) ==
  /\ whaleReqs[r].pc \in {"idle", "done"}
  /\ IF WhaleFresh
     THEN /\ whaleReqs' = [whaleReqs EXCEPT ![r] =
               [IdleWhale EXCEPT !.pc = "done", !.response = whaleCache.trades,
                                 !.how = "cache"]]
          /\ lastScan' = lastScan
     ELSE IF TradersFresh
     THEN /\ whaleReqs' = [whaleReqs EXCEPT ![r] =
               [IdleWhale EXCEPT !.pc = "fetching", !.wallets = topTradersCache.wallets,
                                 !.slot = SlotOf(SecOf(NowMs)), !.scan = "fresh"]]
          /\ lastScan' = lastScan
     ELSE /\ whaleReqs' = [whaleReqs EXCEPT ![r] =
               [IdleWhale EXCEPT !.pc = "discovering", !.nowSec = SecOf(NowMs)]]
          /\ lastScan' = NowMs
  /\ UNCHANGED <<clock, candleCache, whaleCache, topTradersCache, scanned, candleReqs>>
\* The end of a scan that got the answers of book: lines 194-220, and the
\* request's code after the await of line 235.
Publish(r, book) ==
  \E ranked \in {Ranked(book)} :
    /\ IF Len(ranked) > 0
       THEN /\ topTradersCache' = [wallets |-> ranked, lastDiscovery |-> NowMs]
            /\ scanned' = book
       ELSE UNCHANGED <<topTradersCache, scanned>>
    /\ IF Len(topTradersCache'.wallets) = 0
       THEN /\ whaleCache' = [trades |-> Discovering, lastFetch |-> NowMs]
            /\ whaleReqs' = [whaleReqs EXCEPT ![r] =
                 [IdleWhale EXCEPT !.pc = "done", !.response = Discovering,
                                   !.how = "refreshed", !.found = Len(ranked),
                                   !.scan = IF ScanFailed(book) THEN "failed" ELSE "scanned"]]
       ELSE /\ whaleCache' = whaleCache
            /\ whaleReqs' = [whaleReqs EXCEPT ![r] =
                 [IdleWhale EXCEPT !.pc = "fetching",
                                   !.wallets = topTradersCache'.wallets,
                                   !.found = Len(ranked),
                                   !.slot = SlotOf(SecOf(NowMs)),
                                   !.scan = IF ScanFailed(book) THEN "failed" ELSE "scanned"]]
\* A whole scan in one step: its six answers arrive with no other handler
\* in between.
DiscoverFinish(r, book) ==
  /\ whaleReqs[r].pc = "discovering"
  /\ whaleReqs[r].seen = <<>>
  /\ Publish(r, book)
  /\ UNCHANGED <<clock, candleCache, lastScan, candleReqs>>
\* (every answer of a scan publishes the ranking of the answers so far)
ScanStepEager(r, answer) ==
  /\ whaleReqs[r].pc = "discovering"
  /\ LET sofar == Append(whaleReqs[r].seen, answer)
         padded == sofar \o [i \in 1..(TraderBack - FirstBack + 1 - Len(sofar)) |-> Null]
     IN IF Len(sofar) < TraderBack - FirstBack + 1
        THEN /\ whaleReqs' = [whaleReqs EXCEPT ![r].seen = sofar]
             /\ topTradersCache' = [wallets |-> Ranked(padded), lastDiscovery |-> NowMs]
             /\ scanned' = sofar
             /\ UNCHANGED whaleCache
        ELSE Publish(r, sofar)
  /\ UNCHANGED <<clock, candleCache, lastScan, candleReqs>>
\* One answer of a scan: the loop of lines 148-192 adds its records to the
\* call's own traderStats; after the last one the scan ends.
ScanStep(r, answer) ==
  /\ whaleReqs[r].pc = "discovering"
  /\ LET sofar == Append(whaleReqs[r].seen, answer)
     IN IF Len(sofar) < TraderBack - FirstBack + 1
        THEN /\ whaleReqs' = [whaleReqs EXCEPT ![r].seen = sofar]
             /\ UNCHANGED <<whaleCache, topTradersCache, scanned>>
        ELSE Publish(r, sofar)
  /\ UNCHANGED <<clock, candleCache, lastScan, candleReqs>>
WhaleFinish(r, got) ==
  /\ whaleReqs[r].pc = "fetching"
  /\ \E result \in {Consensus(whaleReqs[r].wallets, got)} :
       /\ whaleCache' = [trades |-> result, lastFetch |-> NowMs]
       /\ whaleReqs' = [whaleReqs EXCEPT ![r] =
            [IdleWhale EXCEPT !.pc = "done", !.response = result,
                              !.how = IF ~got.evtOk /\ (\A n \in DOMAIN got.activity : ~got.activity[n].ok)
                                     THEN "failed" ELSE "refreshed",
                              !.wallets = whaleReqs[r].wallets,
                              !.found = whaleReqs[r].found,
                              !.got = got,
                              !.scan = whaleReqs[r].scan]]
  /\ UNCHANGED <<clock, candleCache, topTradersCache, scanned, lastScan, candleReqs>>

\* ---- time passes; the responses already sent are forgotten ----
Later ==
  /\ clock < Len(Instants)
  /\ clock' = clock + 1
  /\ candleReqs' = [r \in DOMAIN candleReqs |->
        IF candleReqs[r].pc = "done" THEN IdleCandle ELSE candleReqs[r]]
  /\ whaleReqs' = [r \in DOMAIN whaleReqs |->
        IF whaleReqs[r].pc = "done" THEN IdleWhale ELSE whaleReqs[r]]
  /\ UNCHANGED <<candleCache, whaleCache, topTradersCache, scanned, lastScan>>

CacheInit ==
  /\ clock = 1
  /\ candleCache = [results |-> <<>>, lastFetch |-> 0]
  /\ whaleCache = [trades |-> Null, lastFetch |-> 0]
  /\ topTradersCache = [wallets |-> <<>>, lastDiscovery |-> 0]
  /\ scanned = <<>>
  /\ lastScan = 0
  /\ candleReqs = [r \in 1..MaxCandleReqs |-> IdleCandle]
  /\ whaleReqs = [r \in 1..MaxWhaleReqs |-> IdleWhale]
  /\ ScoreAtRest
  /\ LockAtRest
  /\ AuthAtRest

CacheNext ==
  \/ Later /\ UNCHANGED <<scoreVars, lockVars, authVars>>
  \/ \E r \in 1..MaxCandleReqs : CandleStart(r) /\ UNCHANGED <<scoreVars, lockVars, authVars>>
  \/ \E r \in 1..MaxCandleReqs, fetched \in CandleAnswers :
       CandleFinish(r, fetched) /\ UNCHANGED <<scoreVars, lockVars, authVars>>
  \/ \E r \in 1..MaxWhaleReqs : WhaleStart(r) /\ UNCHANGED <<scoreVars, lockVars, authVars>>
  \/ \E r \in 1..MaxWhaleReqs, book \in Books :
       DiscoverFinish(r, book) /\ UNCHANGED <<scoreVars, lockVars, authVars>>
  \/ \E r \in 1..MaxWhaleReqs, got \in FetchedNow :
       WhaleFinish(r, got) /\ UNCHANGED <<scoreVars, lockVars, authVars>>

CacheSpec == CacheInit /\ [][CacheNext]_vars

(***************************************************************************)
(* ScanSpec: calls of discoverTopTraders that overlap.  The answers of a   *)
(* scan arrive one by one and the steps of other requests come in          *)
(* between.                                                                *)
(***************************************************************************)
MaxCalls == 2
ScanClocks == 3
\* The answers that can come next in a scan that has seen the answers so far.
NextAnswers(sofar) ==
  {b[Len(sofar) + 1] : b \in {c \in Books : SubSeq(c, 1, Len(sofar)) = sofar}}

ScanInit ==
  /\ clock = 1
  /\ candleCache = [results |-> <<>>, lastFetch |-> 0]
  /\ whaleCache = [trades |-> Null, lastFetch |-> 0]
  /\ topTradersCache = [wallets |-> <<>>, lastDiscovery |-> 0]
  /\ scanned = <<>>
  /\ lastScan = 0
  /\ candleReqs = [r \in 1..MaxCandleReqs |-> IdleCandle]
  /\ whaleReqs = [r \in 1..MaxCalls |-> IdleWhale]
  /\ ScoreAtRest
  /\ LockAtRest
  /\ AuthAtRest

ScanNext ==
  \/ clock < ScanClocks /\ Later /\ UNCHANGED <<scoreVars, lockVars, authVars>>
  \/ \E r \in 1..MaxCalls : WhaleStart(r) /\ UNCHANGED <<scoreVars, lockVars, authVars>>
  \/ \E r \in 1..MaxCalls : \E answer \in NextAnswers(whaleReqs[r].seen) :
       ScanStep(r, answer) /\ UNCHANGED <<scoreVars, lockVars, authVars>>
  \/ \E r \in 1..MaxCalls, got \in FetchedNow :
       WhaleFinish(r, got) /\ UNCHANGED <<scoreVars, lockVars, authVars>>

ScanSpec == ScanInit /\ [][ScanNext]_vars

(***************************************************************************)
(* AuthSpec: the access database (src/server/database.js), the session     *)
(* check of the server and the commands of the Discord bot.  Access codes  *)
(* are the numbers 1..MaxCodes that generateCode can draw, session tokens  *)
(* the numbers of the crypto.randomUUID() calls, which never repeat.  The  *)
(* seven-day expiry of a cookie is left out: it only rejects more.         *)
(***************************************************************************)
MaxUsers == 2
MaxCodes == 2
MaxLogins == 3

DiscordIds == 1..MaxUsers
Codes == 1..MaxCodes
NoToken == 0
NoCookie == [discordId |-> 0, sessionToken |-> NoToken]

\* the text a client types for an access code: the code as issued, or in
\* lower case with blanks around it; code.toUpperCase().trim() gives it back
CodeForms == {"issued", "lower padded"}
Typed(code, form) == [text |-> code, form |-> form]
Normalized(typed) == typed.text

HasRow(discordId) == discordId \in DOMAIN usersTable

\* SELECT * FROM users WHERE access_code = ? AND is_active = 1
ActiveWithCode(code) ==
  {u \in DOMAIN usersTable :
     usersTable[u].access_code = code /\ usersTable[u].is_active}

\* getOrCreateUser(discordId, discordUsername) when generateCode() draws
\* code: the table afterwards and what is returned; the INSERT throws when
\* the code is taken (access_code is UNIQUE)
getOrCreateUser(discordId, code) ==
  IF HasRow(discordId)
    THEN [table |-> usersTable, thrown |-> FALSE,
          code |-> usersTable[discordId].access_code, isNew |-> FALSE]
  ELSE IF \E u \in DOMAIN usersTable : usersTable[u].access_code = code
    THEN [table |-> usersTable, thrown |-> TRUE, code |-> 0, isNew |-> FALSE]
  ELSE [table |-> [u \in DOMAIN usersTable \cup {discordId} |->
                     IF u = discordId
                       THEN [access_code |-> code, is_active |-> TRUE,
                             session_token |-> NoToken]
                       ELSE usersTable[u]],
        thrown |-> FALSE, code |-> code, isNew |-> TRUE]

\* verifyCode(code): the user found (0: null), the table afterwards and the
\* session token given
verifyCode(typed) ==
  IF ActiveWithCode(Normalized(typed)) = {}
    THEN [user |-> 0, table |-> usersTable, session_token |-> NoToken]
    ELSE LET u == CHOOSE x \in ActiveWithCode(Normalized(typed)) : TRUE
         IN  [user |-> u,
              table |-> [usersTable EXCEPT ![u].session_token = uuids + 1],
              session_token |-> uuids + 1]

\* a variant that looks at is_active only
isSessionValidAnyToken(discordId, sessionToken) ==
  IF HasRow(discordId) THEN usersTable[discordId].is_active ELSE FALSE

\* isSessionValid(discordId, sessionToken)
isSessionValid(discordId, sessionToken) ==
  IF HasRow(discordId)
    THEN /\ usersTable[discordId].is_active
         /\ usersTable[discordId].session_token = sessionToken
    ELSE FALSE

\* requireAuth for a request carrying the cookie with this payload: the
\* status answered, 200 standing for next()
requireAuth(payload) ==
  IF payload = NoCookie THEN 401
  ELSE IF payload.sessionToken = NoToken \/ payload.discordId = 0 THEN 401
  ELSE IF ~isSessionValid(payload.discordId, payload.sessionToken) THEN 401
  ELSE 200

Reply(op, status, user, code, isNew) ==
  [op |-> op, status |-> status, user |-> user, code |-> code, isNew |-> isNew]

\* ---- the bot: /getaccess and /mycode ----
CodeCommand(name, user, hasRole, code) ==
  /\ \E got \in {getOrCreateUser(user, code)} :
       IF ~hasRole
         THEN /\ lastReply' = Reply(name, 403, user, 0, FALSE)
              /\ UNCHANGED usersTable
       ELSE IF got.thrown
         THEN /\ lastReply' = Reply(name, 500, user, 0, FALSE)
              /\ UNCHANGED usersTable
       ELSE /\ lastReply' = Reply(name, 200, user, got.code, got.isNew)
            /\ usersTable' = got.table
  /\ UNCHANGED <<jwts, uuids, revokeLog>>

\* a variant of revokeUser that deletes the row
RevokedGone(discordId) ==
  [u \in DOMAIN usersTable \ {discordId} |-> usersTable[u]]

\* revokeUser(discordId): the table afterwards
Revoked(discordId) ==
  [u \in DOMAIN usersTable |->
     IF u = discordId THEN [usersTable[u] EXCEPT !.is_active = FALSE]
     ELSE usersTable[u]]

\* revokeUser is called for the user: by /revoke of an administrator or
\* because the member left the guild
RevokeUser(op, user) ==
  /\ usersTable' = Revoked(user)
  /\ revokeLog' = [asked |-> revokeLog.asked \cup {user},
                   done  |-> IF HasRow(user) THEN revokeLog.done \cup {user}
                             ELSE revokeLog.done]
  /\ lastReply' = Reply(op, IF HasRow(user) THEN 200 ELSE 404, user, 0, FALSE)
  /\ UNCHANGED <<jwts, uuids>>

\* /revoke by a member without Administrator permission
RevokeDenied(user) ==
  /\ lastReply' = Reply("revoke", 403, user, 0, FALSE)
  /\ UNCHANGED <<usersTable, jwts, uuids, revokeLog>>

\* ---- POST /api/verify ----
PostVerify(typed) ==
  /\ uuids < MaxLogins
  /\ \E got \in {verifyCode(typed)} :
       IF got.user = 0
         THEN /\ lastReply' = Reply("verify", 403, 0, Normalized(typed), FALSE)
              /\ UNCHANGED <<usersTable, jwts, uuids>>
         ELSE /\ lastReply' = Reply("verify", 200, got.user, Normalized(typed), FALSE)
              /\ usersTable' = got.table
              /\ uuids' = uuids + 1
              /\ jwts' = jwts \cup {[discordId |-> got.user,
                                     sessionToken |-> got.session_token]}
  /\ UNCHANGED revokeLog

\* ---- GET /api/me, behind requireAuth ----
GetMe(payload) ==
  /\ lastReply' = Reply("me", requireAuth(payload), payload.discordId, 0, FALSE)
  /\ UNCHANGED <<usersTable, jwts, uuids, revokeLog>>

AuthInit ==
  /\ AuthAtRest
  /\ ScoreAtRest
  /\ LockAtRest
  /\ CacheAtRest

AuthNext ==
  \/ \E name \in {"getaccess", "mycode"}, user \in DiscordIds, hasRole \in BOOLEAN,
        code \in Codes :
       CodeCommand(name, user, hasRole, code) /\ UNCHANGED <<scoreVars, lockVars, cacheVars>>
  \/ \E op \in {"revoke", "guildMemberRemove"}, user \in DiscordIds :
       RevokeUser(op, user) /\ UNCHANGED <<scoreVars, lockVars, cacheVars>>
  \/ \E user \in DiscordIds : RevokeDenied(user) /\ UNCHANGED <<scoreVars, lockVars, cacheVars>>
  \/ \E code \in Codes, form \in CodeForms :
       PostVerify(Typed(code, form)) /\ UNCHANGED <<scoreVars, lockVars, cacheVars>>
  \/ \E payload \in jwts \cup {NoCookie} :
       GetMe(payload) /\ UNCHANGED <<scoreVars, lockVars, cacheVars>>

AuthSpec == AuthInit /\ [][AuthNext]_vars

(***************************************************************************)
(* Properties of the scorer and of the lock timing (ScoreSpec).            *)
(***************************************************************************)
\* the commit offset as a function of the gap alone: MIN_WAIT from CLEAR on,
\* MAX_WAIT up to CLOSE, the straight line between the two in between
GapOffset(gap) ==
  IF gap >= 150 THEN Frac(2)
  ELSE IF gap <= 30 THEN Frac(15)
  ELSE [num |-> 15 * (150 - 30) - (gap - 30) * (15 - 2), den |-> 150 - 30]

Scored == scored /\ scoreResult # Null

\* C4, as stated: for every prediction result the scorer returns, the commit
\* offset is MIN_WAIT for gap >= CLEAR, MAX_WAIT for gap <= CLOSE and the
\* linear interpolation between them for CLOSE < gap < CLEAR.
C4_OffsetFromGapAlone ==
  Scored => FracEq(commitAfter, GapOffset(PriceDiff(series, ptbIn)))

\* C4, amended: the offset is that function of the gap when the result's
\* margin is at most 0.5; when the margin exceeds 0.5 it is that value less
\* three times the margin, and never less than MIN_WAIT.
C4_OffsetFromGapAndMargin ==
  Scored =>
    LET g == GapOffset(PriceDiff(series, ptbIn))
        m == scoreResult.margin
    IN  IF 2 * m.num > m.den
          THEN FracEq(commitAfter,
                      FracMax(Frac(2), FracSub(g, [num |-> 3 * m.num, den |-> m.den])))
          ELSE FracEq(commitAfter, g)

\* a result with margin above 0.5 for a gap strictly between CLOSE and CLEAR,
\* committed earlier than the gap alone gives
C4_Witness ==
  /\ Scored
  /\ 2 * scoreResult.margin.num > scoreResult.margin.den
  /\ PriceDiff(series, ptbIn) > 30
  /\ PriceDiff(series, ptbIn) < 150
  /\ FracLess(commitAfter, GapOffset(PriceDiff(series, ptbIn)))

IsRampCase == scored /\ series = Ramp30 /\ ptbIn = 100

\* C6, as stated: for the series 100, 101, ..., 129 with reference price 100
\* serverMakePrediction returns direction UP with confidence above 50.
C6_RampIsUp ==
  IsRampCase =>
    (scoreResult # Null /\ scoreResult.willBeat /\ scoreResult.confidence > 50)

\* C6, amended: for that series and reference price serverMakePrediction
\* returns direction DOWN (willBeat false) with confidence above 50.
C6_RampIsDown ==
  IsRampCase =>
    (scoreResult # Null /\ ~scoreResult.willBeat /\ scoreResult.confidence > 50)

\* the ramp has been scored against reference price 100: bull 3.0, bear 4.5
C6_Witness ==
  /\ IsRampCase
  /\ scoreResult # Null
  /\ scoreResult.bullScore = 6
  /\ scoreResult.bearScore = 9
  /\ scoreResult.confidence = 59

\* C7: for every price sequence of fewer than 26 points and every reference
\* price, none included, serverMakePrediction returns null.
C7_ShortSeriesIsNull ==
  (scored /\ Len(series) < 26) => scoreResult = Null

\* a 25-point series scored against a reference price
C7_Witness ==
  /\ scored
  /\ Len(series) = 25
  /\ ptbIn # NoPrice
  /\ scoreResult = Null

(***************************************************************************)
(* Properties of the hourly prediction lock (Spec).                        *)
(***************************************************************************)
\* the lock holds a committed prediction for the current hour
Committed ==
  serverHourlyPredLock.hour = UTCHours /\ serverHourlyPredLock.prediction # Null

\* C1, as stated: once the lock holds a committed prediction for a window,
\* no later action in the same window replaces it with a different
\* prediction, whatever the interleaving of ticks and POST requests.
C1_CommittedIsNotReplaced ==
  [][(Committed /\ now'.hour = now.hour /\ Committed')
       => serverHourlyPredLock'.prediction = serverHourlyPredLock.prediction]_vars

\* C2, as stated: the one-second reset timer never clears a prediction that
\* was committed for the current hour.  (The timer's firing is the step in
\* which resetDue falls.)
C2_ResetKeepsCommitted ==
  [][(Committed /\ resetDue /\ ~resetDue') => Committed']_vars

\* C3: a tick that starts when the lock is committed for the current hour
\* returns before any fetch and leaves serverHourlyPredLock and
\* serverHourlyPtb unchanged.  (With the clock unchanged, the step in which
\* an idle invocation changes is its start.)
C3_LockedTickIsNoOp ==
  [][\A t \in 1..MaxTicks :
       (Committed /\ ticks[t].pc = "idle" /\ now' = now /\ ticks'[t] # ticks[t])
         => /\ ticks'[t].pc = "idle"
            /\ ticks'[t].outcome = "skipped"
            /\ serverHourlyPredLock' = serverHourlyPredLock
            /\ serverHourlyPtb' = serverHourlyPtb]_vars

\* a tick has started with the lock committed for the current hour and has
\* returned at once, while another invocation was awaiting a fetch
C3_Witness ==
  /\ Committed
  /\ \E t \in 1..MaxTicks : ticks[t].outcome = "skipped"
  /\ \E t \in 1..MaxTicks : ticks[t].pc # "idle"

\* the reference price is that of the current hour, and every close of the
\* hour so far is at least CLEAR away from it
FarWindow ==
  /\ serverHourlyPtb.hour = UTCHours
  /\ serverHourlyPtb.price # NoPrice
  /\ \A i \in 1..(now.minute + 1) :
       Abs(CloseOf(market[now.hour + 1], i) - serverHourlyPtb.price) >= 150

\* C5, as stated: in a window whose price stays at least CLEAR away from the
\* reference price, a tick of that window whose klines request is answered
\* at minute 2 or later, the lock being open, leaves the lock committed.
C5_FarWindowCommitsEarly ==
  [][\A t \in 1..MaxTicks :
       (/\ FarWindow
        /\ ~Committed
        /\ now.minute >= 2
        /\ now' = now
        /\ ticks[t].pc = "klines"
        /\ ticks[t].startHour = now.hour
        /\ ticks'[t].pc = "idle"
        /\ ticks'[t].outcome # "failed")
         => Committed']_vars

(***************************************************************************)
(* Properties of the market data caches (CacheSpec).                       *)
(***************************************************************************)
\* A consensus that names a bet.
HasBet(trades) == trades # Null /\ trades.whaleBet # NoBet

\* C8: when a cached value has expired and every fetch of the refresh fails,
\* the caller receives the value that was cached and the cache keeps it: the
\* recent candles, the consensus of the whale trades and the ranking of the
\* traders are not replaced by an empty or no-data result.
C8_FailedRefreshKeepsValue ==
  [][/\ \A r \in 1..MaxCandleReqs :
          (/\ candleReqs[r].pc = "scan"
           /\ candleReqs'[r].how = "failed"
           /\ Len(candleCache.results) > 0
           /\ NowMs - candleCache.lastFetch >= CandleTtl)
          => /\ candleCache'.results = candleCache.results
             /\ candleReqs'[r].response = [candles |-> candleCache.results]
     /\ \A r \in 1..MaxWhaleReqs :
          (/\ whaleReqs[r].pc = "fetching"
           /\ whaleReqs'[r].how = "failed"
           /\ HasBet(whaleCache.trades)
           /\ NowMs - whaleCache.lastFetch >= WhaleTtl)
          => /\ whaleCache'.trades = whaleCache.trades
             /\ whaleReqs'[r].response = whaleCache.trades
     /\ \A r \in 1..MaxWhaleReqs :
          (/\ whaleReqs[r].pc = "discovering"
           /\ whaleReqs'[r].scan = "failed"
           /\ Len(topTradersCache.wallets) > 0)
          => topTradersCache' = topTradersCache]_vars

WindowsOf(book, wallet) ==
  {i \in 1..Len(book) :
     /\ book[i] # Null
     /\ Winner(book[i].market) # NoWinner
     /\ book[i].holdersOk
     /\ \E k \in 1..Len(book[i].holders) :
          /\ book[i].holders[k].proxyWallet = wallet
          /\ book[i].holders[k].size >= 5}

\* C10: every trader of the ranking had a position of size >= 5 in at least
\* 3 distinct resolved windows of the scan the ranking came from, however
\* many holder records a window has for the trader.
C10_RankedHaveThreeWindows ==
  \A n \in 1..Len(topTradersCache.wallets) :
    Cardinality(WindowsOf(scanned, topTradersCache.wallets[n].wallet)) >= 3

\* a's win rate is higher than b's, or the rates are equal and a's total
\* volume is higher
StrictlyAbove(a, b) ==
  \/ a.wins * (b.wins + b.losses) > b.wins * (a.wins + a.losses)
  \/ /\ a.wins * (b.wins + b.losses) = b.wins * (a.wins + a.losses)
     /\ a.totalSize > b.totalSize

\* C11: every ranking put into topTradersCache has at most 5 entries, no
\* entry is strictly above the entry before it (win rate descending, equal
\* rates by total volume descending), and no trader of the scan with 3 or
\* more counted records who is left out is strictly above a trader of the
\* ranking.
C11_RankingIsOrdered ==
  [][topTradersCache' # topTradersCache =>
       \E top \in {topTradersCache'.wallets} : \E found \in {TraderStats(scanned')} :
         /\ Len(top) <= 5
         /\ \A n \in 1..(Len(top) - 1) : ~StrictlyAbove(top[n + 1], top[n])
         /\ \A k \in 1..Len(found) :
              (/\ found[k].wins + found[k].losses >= 3
               /\ \A n \in 1..Len(top) : top[n].wallet # found[k].wallet)
              => \A n \in 1..Len(top) : ~StrictlyAbove(found[k], top[n])
    ]_vars

\* C11 witness: a ranking of 5 traders from a scan with more than 5 traders
\* of 3 or more records, with two neighbours of equal win rate and different
\* total volume, and two neighbours of different win rates.
C11_Witness ==
  /\ Len(topTradersCache.wallets) = 5
  /\ LET found == TraderStats(scanned)
     IN Cardinality({k \in 1..Len(found) : found[k].wins + found[k].losses >= 3}) > 5
  /\ \E n \in 1..4 :
       /\ topTradersCache.wallets[n].winRate = topTradersCache.wallets[n + 1].winRate
       /\ topTradersCache.wallets[n].totalSize > topTradersCache.wallets[n + 1].totalSize
  /\ \E n \in 1..4 :
       topTradersCache.wallets[n].wins > topTradersCache.wallets[n + 1].wins

\* C12: when the scan of a call (a scan whose fetches were answered) finds
\* no trader with enough records, the ranking the call returns is empty,
\* whatever an earlier scan had found.
C12_NoneFoundReturnsEmpty ==
  [][\A r \in DOMAIN whaleReqs :
       (/\ whaleReqs[r].pc = "discovering"
        /\ whaleReqs'[r].pc # "discovering"
        /\ whaleReqs'[r].scan = "scanned"
        /\ whaleReqs'[r].found = 0)
       => whaleReqs'[r].wallets = <<>>]_vars

\* C13: a call scans only when the last scan lies 5 minutes or more back:
\* two calls less than 5 minutes apart cause at most one scan, also while
\* the ranking is empty or after a scan that found no trader.
C13_ScansFiveMinutesApart ==
  [][\A r \in DOMAIN whaleReqs :
       (/\ whaleReqs[r].pc # "discovering"
        /\ whaleReqs'[r].pc = "discovering"
        /\ lastScan > 0)
       => NowMs - lastScan >= 300000]_vars

\* C14: whatever the interleaving of overlapping discoverTopTraders calls,
\* topTradersCache changes only in the step in which one call ends its scan,
\* and then all of it is replaced: the new wallets are the non-empty ranking
\* computed from the six answers of that call alone, and lastDiscovery is the
\* time of that step.  A request that starts reading the ranking takes the
\* ranking the cache holds in that step.
C14_RankingReplacedWhole ==
  [][/\ topTradersCache' # topTradersCache =>
          \E r \in DOMAIN whaleReqs :
            /\ whaleReqs[r].pc = "discovering"
            /\ whaleReqs'[r].pc # "discovering"
            /\ Len(whaleReqs[r].seen) = TraderBack - FirstBack
            /\ Len(scanned') = TraderBack - FirstBack + 1
            /\ SubSeq(scanned', 1, TraderBack - FirstBack) = whaleReqs[r].seen
            /\ Len(topTradersCache'.wallets) > 0
            /\ topTradersCache' =
                 [wallets |-> Ranked(scanned'), lastDiscovery |-> NowMs]
     /\ \A r \in DOMAIN whaleReqs :
          (whaleReqs[r].pc # "fetching" /\ whaleReqs'[r].pc = "fetching")
            => whaleReqs'[r].wallets = topTradersCache'.wallets
    ]_vars

\* Two calls scan at once; one has published its ranking and reads the
\* holders with it while the other, part of the way through a different scan,
\* has not touched the cache.
C14_Witness ==
  \E r1, r2 \in DOMAIN whaleReqs :
    /\ r1 # r2
    /\ whaleReqs[r1].pc = "fetching"
    /\ whaleReqs[r1].scan = "scanned"
    /\ whaleReqs[r1].wallets = topTradersCache.wallets
    /\ whaleReqs[r2].pc = "discovering"
    /\ Len(whaleReqs[r2].seen) >= 3
    /\ SubSeq(scanned, 1, Len(whaleReqs[r2].seen)) # whaleReqs[r2].seen

\* The holders of a request's answers that are matched with a ranked trader
\* of the name of the n-th trader of the request's ranking.
HeldBy(r, n) ==
  IF whaleReqs[r].got.evtOk /\ whaleReqs[r].got.holdersOk
  THEN {k \in 1..Len(whaleReqs[r].got.holders) :
          \E j \in 1..Len(whaleReqs[r].wallets) :
            /\ whaleReqs[r].wallets[j].wallet = whaleReqs[r].got.holders[k].proxyWallet
            /\ whaleReqs[r].wallets[j].username = whaleReqs[r].wallets[n].username}
  ELSE {}
SlotTraded(r, n) ==
  /\ n <= 3
  /\ whaleReqs[r].got.activity[n].ok
  /\ \E k \in 1..Len(whaleReqs[r].got.activity[n].trades) :
       /\ whaleReqs[r].got.activity[n].trades[k].back = 0
       /\ whaleReqs[r].got.activity[n].trades[k].type = "TRADE"

\* C15: in the result of one consensus computation, a ranked trader who is
\* among the holders of the current market is counted from the holders only:
\* the voters of that trader's name are as many as the holder records matched
\* with it, whatever the trader's activity shows for the window.
C15_CountedFromOneSource ==
  \A r \in DOMAIN whaleReqs :
    (whaleReqs[r].pc = "done" /\ whaleReqs[r].got # Null) =>
      \A n \in 1..Len(whaleReqs[r].wallets) :
        HeldBy(r, n) # {} =>
          Cardinality({k \in 1..Len(whaleReqs[r].response.voters) :
                         whaleReqs[r].response.voters[k].username
                           = whaleReqs[r].wallets[n].username})
            = Cardinality(HeldBy(r, n))

\* A request answered with a trader who is among the holders and also traded
\* in the window according to the activity source.
C15_Witness ==
  \E r \in DOMAIN whaleReqs :
    /\ whaleReqs[r].pc = "done"
    /\ whaleReqs[r].got # Null
    /\ \E n \in 1..Len(whaleReqs[r].wallets) :
         HeldBy(r, n) # {} /\ SlotTraded(r, n)

\* C16: in the result of a consensus computation the bet is YES only if
\* yesWeight is strictly larger than noWeight, NO only if noWeight is
\* strictly larger than yesWeight, and null if no position was found.
C16_BetIsTheHeavierSide ==
  \A r \in DOMAIN whaleReqs :
    (whaleReqs[r].pc = "done" /\ whaleReqs[r].got # Null) =>
      /\ whaleReqs[r].response.whaleBet = "YES" =>
           FracLess(whaleReqs[r].response.noWeight, whaleReqs[r].response.yesWeight)
      /\ whaleReqs[r].response.whaleBet = "NO" =>
           FracLess(whaleReqs[r].response.yesWeight, whaleReqs[r].response.noWeight)
      /\ whaleReqs[r].response.totalTradesFound = 0 =>
           whaleReqs[r].response.whaleBet = NoBet

\* The sum of winRate x size over the voters of a direction.
RateTimesSize(voters, direction) ==
  LET Sum[k \in 0..Len(voters)] ==
        IF k = 0 THEN Frac(0)
        ELSE IF voters[k].direction = direction
             THEN FracAdd(Sum[k - 1], [num |-> voters[k].winRate.num * voters[k].size,
                                       den |-> voters[k].winRate.den])
             ELSE Sum[k - 1]
  IN Sum[Len(voters)]

\* C17: in the result of a consensus computation, yesWeight is the sum of
\* winRate x size over the voters counted for YES and noWeight the same sum
\* over the voters counted for NO, whatever the win rates, 0 included.
C17_WeightIsRateTimesSize ==
  \A r \in DOMAIN whaleReqs :
    (whaleReqs[r].pc = "done" /\ whaleReqs[r].got # Null) =>
      /\ FracEq(whaleReqs[r].response.yesWeight,
                RateTimesSize(whaleReqs[r].response.voters, "YES"))
      /\ FracEq(whaleReqs[r].response.noWeight,
                RateTimesSize(whaleReqs[r].response.voters, "NO"))

\* C18: in the result of a consensus computation, confidence times
\* (yesWeight + noWeight) is |yesWeight - noWeight| when the sum is positive,
\* confidence is 0 when both weights are 0, and 0 <= confidence <= 1.
C18_ConfidenceIsRelativeSpread ==
  \A r \in DOMAIN whaleReqs :
    (whaleReqs[r].pc = "done" /\ whaleReqs[r].got # Null) =>
      LET yes == whaleReqs[r].response.yesWeight
          no == whaleReqs[r].response.noWeight
          conf == whaleReqs[r].response.confidence
      IN /\ conf.den > 0
         /\ conf.num >= 0
         /\ conf.num <= conf.den
         /\ (yes.num = 0 /\ no.num = 0) => conf.num = 0
         /\ FracAdd(yes, no).num > 0 =>
              conf.num * FracAdd(yes, no).num * FracSub(yes, no).den
                = Abs(FracSub(yes, no).num) * conf.den * FracAdd(yes, no).den

\* A result with both sides weighted, NO the heavier, and a confidence
\* strictly between 0 and 1.
C18_Witness ==
  \E r \in DOMAIN whaleReqs :
    /\ whaleReqs[r].pc = "done"
    /\ whaleReqs[r].got # Null
    /\ whaleReqs[r].response.yesWeight.num > 0
    /\ FracLess(whaleReqs[r].response.yesWeight, whaleReqs[r].response.noWeight)
    /\ whaleReqs[r].response.confidence.num > 0
    /\ whaleReqs[r].response.confidence.num < whaleReqs[r].response.confidence.den

RsiPeriod == 14
\* the last p changes of the series: none is a fall and one is a rise
RisesOnly(d, p) ==
  /\ Len(d) >= p + 1
  /\ \A i \in (Len(d) - p)..(Len(d) - 1) : d[i + 1] >= d[i]
  /\ \E i \in (Len(d) - p)..(Len(d) - 1) : d[i + 1] > d[i]

\* C20: for every period p up to 14 and every series of at least p + 1
\* prices whose last p changes are all non-negative with at least one
\* positive, serverRsi returns exactly 100.
C20_RsiIsHundredWithoutLosses ==
  \A p \in 1..RsiPeriod :
    RisesOnly(series, p) => serverRsi(series, p) = QInt(100)

\* a scored series whose last 14 changes hold both flat steps and rises
C20_Witness ==
  /\ scored
  /\ RisesOnly(series, RsiPeriod)
  /\ \E i \in (Len(series) - RsiPeriod)..(Len(series) - 1) : series[i + 1] = series[i]
  /\ serverRsi(series, RsiPeriod) = QInt(100)

\* C22: every result of serverMakePrediction that is not null has an integer
\* confidence between 50 and 88 and a margin between 0 and 1, and its
\* confidence is 52 + 36 * margin rounded to the nearest integer, halves up.
C22_ConfidenceFromMargin ==
  (scored /\ scoreResult # Null) =>
    /\ scoreResult.confidence \in 50..88
    /\ scoreResult.margin.den > 0
    /\ scoreResult.margin.num >= 0
    /\ scoreResult.margin.num <= scoreResult.margin.den
    /\ (2 * scoreResult.confidence - 1) * scoreResult.margin.den
         <= 104 * scoreResult.margin.den + 72 * scoreResult.margin.num
    /\ 104 * scoreResult.margin.den + 72 * scoreResult.margin.num
         < (2 * scoreResult.confidence + 1) * scoreResult.margin.den

\* a result whose 52 + 36 * margin lies half way or more above an integer,
\* so that the rounding goes up
C22_Witness ==
  /\ scored
  /\ scoreResult # Null
  /\ scoreResult.confidence * scoreResult.margin.den
       > 52 * scoreResult.margin.den + 36 * scoreResult.margin.num
  /\ scoreResult.margin.num < scoreResult.margin.den

\* The bear tally of the scoring table, in half points: the EMA state
\* without a cross counts only when EMA-9 is below EMA-21 and MACD only when
\* it is negative.
TableBear(prices, ptbPrice) ==
  LET cur == prices[Len(prices)]
      ec  == serverEmaCrossover(prices)
      mc  == serverMacd(prices)
      crossBear == IF ec = Null THEN 0
                   ELSE IF ec.crossUp THEN 0
                   ELSE IF ec.crossDown THEN 6
                   ELSE IF QLess(serverEma(prices, 9), serverEma(prices, 21)) THEN 3
                   ELSE 0
      macdBear == IF mc = Null THEN 0 ELSE IF mc.negative THEN 3 ELSE 0
  IN VelocityBear(serverPriceVelocity(prices)) + RsiBear(serverRsi(prices, 14))
       + crossBear + macdBear + BbBear(serverBb(prices, 20), cur)
       + StochBear(serverStochRsi(prices, 14, 14)) + PtbBear(cur, ptbPrice)

\* C23: the bear tally of every result of serverMakePrediction is the sum of
\* the weights of the signals whose bear condition of the scoring table
\* holds; in particular MACD adds 1.5 only when it is negative and the EMA
\* state without a cross adds 1.5 only when EMA-9 is below EMA-21.
C23_BearTallyFollowsTable ==
  (scored /\ scoreResult # Null) =>
    scoreResult.bearScore = TableBear(series, ptbIn)

\* C24: a tick whose price request fails or answers with fewer than 26
\* points returns without changing the lock or the stored reference price.
C24_NoPricesNoChange ==
  [][\A t \in DOMAIN ticks :
       (/\ ticks[t].pc = "klines"
        /\ ticks'[t].pc = "idle"
        /\ ticks'[t].outcome \in {"failed", "short"})
       => /\ serverHourlyPredLock' = serverHourlyPredLock
          /\ serverHourlyPtb' = serverHourlyPtb]_vars

\* One tick has just returned for want of prices, with a reference price
\* stored and the lock open, and in the same minute another tick has
\* committed the lock for the window.
C24_Witness ==
  \E t, u \in DOMAIN ticks :
    /\ ticks[t].pc = "idle"
    /\ ticks[t].outcome = "failed"
    /\ ticks[u].pc = "idle"
    /\ ticks[u].outcome = "committed"
    /\ serverHourlyPtb.price # NoPrice
    /\ serverHourlyPredLock.hour = UTCHours

\* C25: when a new window begins GET /api/pred-lock-hourly reports no
\* committed prediction; once the timer has fired in the first seconds of the
\* window the lock holds nothing of an earlier window; and a tick that starts
\* while the lock is not committed for the current window goes on to fetch
\* prices, whatever a tick of the window before has written since.
C25_NewWindowStartsOpen ==
  [][/\ now'.hour # now.hour =>
          ~(/\ serverHourlyPredLock'.hour = now'.hour % 24
            /\ serverHourlyPredLock'.prediction # Null)
     /\ (now'.minute = 0 /\ now'.sec = 5) =>
          serverHourlyPredLock'.hour \in {-1, now'.hour % 24}
     /\ \A t \in DOMAIN ticks :
          (/\ ticks[t].pc = "idle"
           /\ ticks'[t] # ticks[t]
           /\ now' = now
           /\ serverHourlyPredLock.hour # UTCHours)
          => /\ ticks'[t].pc = "klines"
             /\ ticks'[t].currentHour = UTCHours
    ]_vars

\* In the second window the lock holds a prediction that a tick begun in the
\* first window committed after the boundary; GET reports nothing and a tick
\* of the second window is fetching prices.
C25_Witness ==
  /\ now.hour = 1
  /\ serverHourlyPredLock.hour = 0
  /\ serverHourlyPredLock.prediction # Null
  /\ serverHourlyPredLock.ts = DateNow
  /\ GetPredLockHourly.prediction = Null
  /\ \E t \in DOMAIN ticks : ticks[t].pc = "klines" /\ ticks[t].startHour = 1

\* C26: the lock changes only in a step in which a tick commits or in which
\* the timer resets it at the top of the hour.
C26_OnlySchedulerWritesLock ==
  [][serverHourlyPredLock' # serverHourlyPredLock =>
       \/ \E t \in DOMAIN ticks :
            /\ ticks[t].pc \in {"klines", "open"}
            /\ ticks'[t].pc = "idle"
            /\ ticks'[t].outcome = "committed"
       \/ /\ resetDue /\ ~resetDue'
          /\ serverHourlyPredLock' = OpenLock]_vars

\* the predictions a tick can commit: those the scorer computes
ScorerPredictions ==
  {[willBeat |-> e.result.willBeat, confidence |-> e.result.confidence,
    bullScore |-> e.result.bullScore, bearScore |-> e.result.bearScore] :
     e \in {x \in PredictionTable : x.result # Null}}

PtbOfWindow(ptb, tk) == IF ptb.hour = tk.currentHour THEN ptb ELSE NoPtb

\* C28: a tick that scores does so, and decides between commit and wait,
\* with the reference price recorded for its window or with none: what it
\* writes to the lock and how it ends are what the reference price of its
\* window gives, a price stored for another window playing no part.
C28_ReferenceIsOfTheWindow ==
  [][\A t \in DOMAIN ticks :
       (/\ ticks[t].pc \in {"klines", "open"}
        /\ ticks'[t].pc = "idle"
        /\ ticks'[t].outcome \in {"committed", "waiting", "noresult"})
       => \E prices \in {IF ticks[t].pc = "open" THEN ticks[t].prices
                         ELSE KlinesNow(ticks[t].startHour)} :
          \E ptb \in {PtbOfWindow(serverHourlyPtb', ticks[t])} :
          \E due \in {CommitOrWait(ticks[t], prices, ptb, Predicted(prices, ptb.price))} :
            /\ ticks'[t].outcome = due.outcome
            /\ serverHourlyPredLock' = due.lock]_vars

\* C29: the commit offset after the margin adjustment lies in
\* [MIN_WAIT, MAX_WAIT] = [2, 15]; when the margin exceeds 0.5 it is the larger
\* of MIN_WAIT and the unadjusted offset less three times the margin (it is
\* one of the two and not below either) and never later than the unadjusted
\* offset; when the margin is at most 0.5 it is the unadjusted offset.
C29_OffsetWithinWaitBounds ==
  Scored =>
    LET g    == GapOffset(PriceDiff(series, ptbIn))
        m    == scoreResult.margin
        less == FracSub(g, [num |-> 3 * m.num, den |-> m.den])
    IN  /\ ~ FracLess(commitAfter, Frac(2))
        /\ ~ FracLess(Frac(15), commitAfter)
        /\ IF 2 * m.num > m.den
             THEN /\ ~ FracLess(g, commitAfter)
                  /\ ~ FracLess(commitAfter, less)
                  /\ FracEq(commitAfter, Frac(2)) \/ FracEq(commitAfter, less)
             ELSE FracEq(commitAfter, g)

\* a result with margin above 0.5 whose adjusted offset would fall below
\* MIN_WAIT and is held at MIN_WAIT, earlier than the unadjusted offset
C29_Witness ==
  /\ Scored
  /\ 2 * scoreResult.margin.num > scoreResult.margin.den
  /\ FracLess(FracSub(GapOffset(PriceDiff(series, ptbIn)),
                      [num |-> 3 * scoreResult.margin.num,
                       den |-> scoreResult.margin.den]),
              Frac(2))
  /\ FracLess(Frac(2), GapOffset(PriceDiff(series, ptbIn)))
  /\ FracEq(commitAfter, Frac(2))

\* C30: no commit is made from a null prediction: in every reachable state a
\* lock whose hour is not -1 holds a non-null prediction, and a tick whose
\* scorer result is null leaves the lock unchanged (a tick that changes the
\* lock has a non-null result).
C30_NoCommitFromNull ==
  /\ [](serverHourlyPredLock.hour # -1 => serverHourlyPredLock.prediction # Null)
  /\ [][\A t \in DOMAIN ticks :
          (ticks[t].pc \in {"klines", "open"} /\ ticks'[t].pc = "idle"
           /\ ticks'[t].outcome \in {"committed", "waiting", "noresult"})
          => \E prices \in {IF ticks[t].pc = "open" THEN ticks[t].prices
                            ELSE KlinesNow(ticks[t].startHour)} :
             \E result \in {Predicted(prices, serverHourlyPtb'.price)} :
               /\ result = Null => UNCHANGED serverHourlyPredLock
               /\ serverHourlyPredLock' # serverHourlyPredLock
                    => result # Null /\ serverHourlyPredLock'.prediction # Null]_vars

\* the lock committed by a tick for the present hour, from the scorer's result
C30_Witness ==
  /\ serverHourlyPredLock.hour = UTCHours
  /\ serverHourlyPredLock.prediction # Null
  /\ serverHourlyPredLock.prediction # ClientPrediction
  /\ \E t \in DOMAIN ticks : ticks[t].outcome = "committed"

(***************************************************************************)
(* Properties of serverEma on Numbers (EmaSpec).                           *)
(***************************************************************************)
\* serverEma has returned for a constant series at least as long as the period
EmaReturned ==
  /\ emaRun.pc = "returned"
  /\ Len(emaRun.d) >= emaRun.p

C31_DirectionIsLargerTally ==
  Scored =>
    /\ scoreResult.willBeat = (scoreResult.bullScore > scoreResult.bearScore)
    /\ scoreResult.bullScore = scoreResult.bearScore
         => /\ ~scoreResult.willBeat
            /\ scoreResult.margin.num = 0
            /\ scoreResult.confidence = 52

\* a result with equal tallies
C31_Witness ==
  /\ Scored
  /\ scoreResult.bullScore = scoreResult.bearScore
  /\ ~scoreResult.willBeat

(***************************************************************************)
(* Properties of the access database and the sessions (AuthSpec).          *)
(***************************************************************************)
\* C32: at most one session per user is valid at any time: of the cookies
\* signed for a user at most one passes requireAuth, and right after
\* verifyCode succeeded for a user every cookie an earlier verifyCode gave
\* that user is answered 401.
C32_OneValidSessionPerUser ==
  /\ \A c1 \in jwts : \A c2 \in jwts :
       (c1.discordId = c2.discordId /\ requireAuth(c1) = 200 /\ requireAuth(c2) = 200)
         => c1 = c2
  /\ (lastReply.op = "verify" /\ lastReply.status = 200)
       => \A c \in jwts :
            (c.discordId = lastReply.user /\ c.sessionToken < uuids)
              => requireAuth(c) = 401

\* a user has logged in twice, and the request with the older cookie has
\* just been answered 401 while the newer cookie passes
C32_Witness ==
  /\ lastReply.op = "me"
  /\ lastReply.status = 401
  /\ \E c1 \in jwts : \E c2 \in jwts :
       /\ c1.discordId = lastReply.user
       /\ c2.discordId = lastReply.user
       /\ c1.sessionToken < c2.sessionToken
       /\ requireAuth(c1) = 401
       /\ requireAuth(c2) = 200

\* nothing lets the user in: the user's access code is refused by verifyCode
\* in every form, and isSessionValid is false for every token
LockedOut(u) ==
  /\ IF HasRow(u)
       THEN /\ ~usersTable[u].is_active
            /\ \A form \in CodeForms :
                 verifyCode(Typed(usersTable[u].access_code, form)).user = 0
       ELSE TRUE
  /\ \A t \in 0..MaxLogins : ~isSessionValid(u, t)
  /\ \A c \in jwts : c.discordId = u => requireAuth(c) = 401

\* C33, as stated: after revokeUser(u), by the admin command or because the
\* member left the guild, verifyCode with u's access code returns null and
\* isSessionValid(u, t) is false for every token t in every later state.
C33_RevokedForGood ==
  \A u \in revokeLog.asked : LockedOut(u)

\* C33, amended: the same for every user who had a record when revokeUser
\* was called (revokeUser returned true); the record stays, inactive.
C33_RevokedWithRecordForGood ==
  \A u \in revokeLog.done : HasRow(u) /\ LockedOut(u)

\* a user who had logged in was revoked and has since asked for the code
\* again
C33_Witness ==
  /\ lastReply.op \in {"getaccess", "mycode"}
  /\ lastReply.status = 200
  /\ lastReply.user \in revokeLog.done
  /\ \E c \in jwts : c.discordId = lastReply.user

\* C34: the access code that getOrCreateUser returns to a user is one that
\* verifyCode accepts at that moment, for that user, after any sequence of
\* getOrCreateUser, verifyCode and revokeUser calls.
C34_IssuedCodeIsAccepted ==
  (lastReply.op \in {"getaccess", "mycode"} /\ lastReply.status = 200)
    => \A form \in CodeForms :
         verifyCode(Typed(lastReply.code, form)).user = lastReply.user

\* the ranked trader has a record for the current window: a position among
\* the holders, or (for the first three) a trade of the window in /activity
HeldByWallet(r, n) ==
  IF whaleReqs[r].got.evtOk /\ whaleReqs[r].got.holdersOk
  THEN {k \in 1..Len(whaleReqs[r].got.holders) :
          whaleReqs[r].got.holders[k].proxyWallet = whaleReqs[r].wallets[n].wallet}
  ELSE {}
HasRecord(r, n) == HeldByWallet(r, n) # {} \/ SlotTraded(r, n)

\* C35: in the result of a consensus computation each ranked trader
\* contributes at most one position and every ranked trader with a record for
\* the current window is counted: the voters are as many as the ranked traders
\* with a record, and a trader whose display name no other ranked trader
\* bears appears once among the voters if the trader has a record, and not
\* at all otherwise.
C35_OneVotePerTrader ==
  \A r \in DOMAIN whaleReqs :
    (whaleReqs[r].pc = "done" /\ whaleReqs[r].got # Null) =>
      /\ whaleReqs[r].response.totalTradesFound
           = Cardinality({n \in 1..Len(whaleReqs[r].wallets) : HasRecord(r, n)})
      /\ \A n \in 1..Len(whaleReqs[r].wallets) :
           (\A j \in 1..Len(whaleReqs[r].wallets) :
              j # n => whaleReqs[r].wallets[j].username # whaleReqs[r].wallets[n].username)
           => Cardinality({k \in 1..Len(whaleReqs[r].response.voters) :
                             whaleReqs[r].response.voters[k].username
                               = whaleReqs[r].wallets[n].username})
                = (IF HasRecord(r, n) THEN 1 ELSE 0)

\* C37: GET /api/ptb-hourly returns a price only if it was stored for the
\* current UTC hour and less than one hour ago, and then the stored price;
\* a POST /api/ptb-hourly (a step that changes the stored reference price
\* while no tick moves) stores a price only when 30000 < price < 200000 and
\* the posted hour is the current UTC hour, and leaves it unchanged otherwise.
C37_HourlyPtbIsOfThisHour ==
  /\ [](GetPtbHourly.price # NoPrice =>
          /\ GetPtbHourly.price = serverHourlyPtb.price
          /\ serverHourlyPtb.hour = now.hour % 24
          /\ serverHourlyPtb.timestamp = now.hour + 1)
  /\ [][(serverHourlyPtb' # serverHourlyPtb /\ ticks' = ticks) =>
          /\ serverHourlyPtb'.price > 30000
          /\ serverHourlyPtb'.price < 200000
          /\ serverHourlyPtb'.hour = now.hour % 24
          /\ serverHourlyPtb'.timestamp = now.hour + 1]_vars

\* a price posted in an earlier hour is still stored and is no longer
\* returned
C37_Witness ==
  /\ serverHourlyPtb.price = PostedPrice
  /\ serverHourlyPtb.hour # UTCHours
  /\ GetPtbHourly.price = NoPrice

\* C36: when the scorer is called without a reference price, the tallies it
\* returns are those of the six other signals alone, the gap is taken to be
\* 999, which is not below CLEAR, and the commit offset is MIN_WAIT whatever
\* the prices and the margin are.
C36_NoReferenceCommitsAtMinWait ==
  (Scored /\ ptbIn = NoPrice) =>
    LET cur == series[Len(series)]
        vel == serverPriceVelocity(series)
        rs  == serverRsi(series, 14)
        ec  == serverEmaCrossover(series)
        mc  == serverMacd(series)
        b   == serverBb(series, 20)
        sr  == serverStochRsi(series, 14, 14)
    IN  /\ scoreResult.bullScore =
             VelocityBull(vel) + RsiBull(rs) + CrossBull(ec) + MacdBull(mc)
               + BbBull(b, cur) + StochBull(sr)
        /\ scoreResult.bearScore =
             VelocityBear(vel) + RsiBear(rs) + CrossBear(ec) + MacdBear(mc)
               + BbBear(b, cur) + StochBear(sr)
        /\ PriceDiff(series, ptbIn) = 999
        /\ PriceDiff(series, ptbIn) >= CLEAR
        /\ commitAfter = Frac(MIN_WAIT)

\* a falling series scored without a reference price, its margin at most
\* one half
C36_Witness ==
  /\ Scored
  /\ ptbIn = NoPrice
  /\ series[Len(series)] < StartPrice
  /\ 2 * scoreResult.margin.num <= scoreResult.margin.den
  /\ commitAfter = Frac(MIN_WAIT)

\* C38: for every scored series of at least 26 positive prices the MACD
\* signal scores exactly one side with 1.5, so bullScore + bearScore is at
\* least 1.5 (3 half points), the total the margin is computed from is that
\* sum and not the floor of 1, and the margin is at most 1.
C38_MacdAlwaysScores ==
  Scored =>
    /\ Len(series) >= 26
    /\ \A i \in 1..Len(series) : series[i] > 0
    /\ MacdBull(serverMacd(series)) + MacdBear(serverMacd(series)) = 3
    /\ scoreResult.bullScore + scoreResult.bearScore >= 3
    /\ scoreResult.margin.den = scoreResult.bullScore + scoreResult.bearScore
    /\ scoreResult.margin.num <= scoreResult.margin.den

\* a series whose MACD is exactly 0 has been scored: the bear side got the
\* 1.5
C38_Witness ==
  /\ Scored
  /\ ~serverMacd(series).bullish
  /\ ~serverMacd(series).negative
  /\ scoreResult.bearScore >= 3

(***************************************************************************)
(* Properties of serverStochRsi (StochSpec).                               *)
(***************************************************************************)
\* C39: serverStochRsi(prices) is null for fewer than 28 prices; for 28 or
\* more it returns a k with 0 <= k <= 100, and the first rolling RSI value,
\* that of the empty slice prices.slice(-1, 14), is not one of the last 14
\* values that the minimum and the maximum are taken of.
C39_FirstRsiValueIsDropped ==
  scored =>
    IF Len(series) < 28 THEN scoreResult = Null
    ELSE LET rs == RsiSeries(series, 14)
         IN  /\ scoreResult # Null
             /\ QLeq(QInt(0), scoreResult.k)
             /\ QLeq(scoreResult.k, QInt(100))
             /\ JsSlice(series, 14 - 14 - 1, 14) = <<>>
             /\ rs[1] = RollingRsi(<<>>)
             /\ Len(rs) > 14
             /\ Last(rs, 14) = Last(Tail(rs), 14)

\* a series of 28 points or more has been given a k strictly between 0 and
\* 100 while the first rolling RSI value lies below the minimum of the last
\* 14: had it been among them, the result would have been another
C39_Witness ==
  /\ scored
  /\ Len(series) >= 28
  /\ scoreResult # Null
  /\ QLess(QInt(0), scoreResult.k)
  /\ QLess(scoreResult.k, QInt(100))
  /\ QLess(RsiSeries(series, 14)[1], QMin(Last(RsiSeries(series, 14), 14)))

====
